---- MODULE Spec2Model ----
(***************************************************************************)
(* chartscan: the values merger, the reference resolver, the per-chart     *)
(* scan pipeline and the chart renderer (internal/renderer/renderer.go),   *)
(* and the concurrent chart processor and the scan and template commands   *)
(* (cmd/chartscan/main.go).                                                *)
(*                                                                         *)
(* Conventions.                                                            *)
(*  - A Go string is a sequence of tokens: single characters where the     *)
(*    code looks inside the string ("a", ".", "\n"), and whole literal     *)
(*    chunks where it only concatenates or compares them.                  *)
(*  - A Go map[string]interface{} is an object on a heap: Go maps are      *)
(*    references, so two variables can name the same object.  The heap is  *)
(*    a sequence of objects and an object id is an index into it.          *)
(*  - A value stored in a map is a record [k, v]: k is the dynamic type    *)
(*    ("nil", "scalar", "seq" or "map"), v its payload as a tuple (for a   *)
(*    "map", the one-element tuple holding the object id).                 *)
(*  - A document is the content of a YAML file before it is unmarshalled:  *)
(*    the same records, with the payload of a "map" being the function     *)
(*    from keys to documents.                                              *)
(***************************************************************************)
EXTENDS Integers, Sequences, FiniteSets, TLC

VARIABLES
    mheap,      \* SpecMerge: the heap holding target and source
    mtarget,    \* SpecMerge: object id of the target argument
    msource,    \* SpecMerge: object id of the source argument
    mpre,       \* SpecMerge: the heap as it was when mergeMaps was called
    mpc,        \* SpecMerge: "call" before the call, "done" after it, "idle" elsewhere
    lfs,        \* SpecLoad: the file system, path -> file state
    lchart,     \* SpecLoad: the chartPath argument
    lfiles,     \* SpecLoad: the valuesFiles argument
    lst,        \* SpecLoad: the locals of loadAndMergeValues (heap, values, errors)
    lidx,       \* SpecLoad: how many entries of valuesFiles the loop has visited
    lpc,        \* SpecLoad: "start", "loop", "done", "idle" elsewhere
    rheap,      \* SpecResolve, SpecCheck: the heap holding the values map
    rvalues,    \* SpecResolve, SpecCheck: object id of the values map
    rrefs,      \* SpecResolve, SpecCheck: the value references to resolve
    rout,       \* SpecResolve: the booleans returned; SpecCheck: the diagnostics
    rpc,        \* SpecResolve, SpecCheck: "call", "done", "idle" elsewhere
    pfile,      \* SpecParse: the template file, [name, st, content]
    pout,       \* SpecParse: what TemplateParser returned, [err, refs]
    ppc,        \* SpecParse: "call", "done", "idle" elsewhere
    chartDirs,     \* Spec, SpecScan: the chartDirs argument of processCharts
    configValuesFiles, \* config.ValuesFiles
    env,           \* what the charts hold and the tools answer: [charts, fs]
    disk,          \* what the scans change on disk: [charts, locks, tmp, subcharts, gone, archives]
    gor,           \* the goroutines of processCharts, one per entry of chartDirs
    mutex,         \* 0 when free, else the goroutine holding it
    results,       \* the local results of processCharts
    invalidCharts, \* the local invalidCharts of processCharts
    wg,            \* the counter of the sync.WaitGroup
    mainpc,        \* processCharts itself: "call", "wait", "returned"; "idle" elsewhere
    spinner,       \* the spinner: [active, suffix]
    returned,      \* what processCharts returned: [results, invalidCharts]
    flags,         \* SpecConfig: the flags of scan, [configFile, valuesFiles, format, environment]
    args,          \* SpecConfig: the positional arguments of scan
    repoFile,      \* SpecConfig: the git work tree and the configuration file
    configFile,    \* SpecConfig: the configFile local of scanCmd.Run
    config,        \* SpecConfig: what loadConfig returned, [isNil, cfg, err]
    cfgpc,         \* SpecConfig: "run", "loaded", "exited"; "idle" elsewhere
    format,        \* SpecCommand: config.Format
    marshalErr,    \* SpecCommand: whether json.MarshalIndent fails on the results
    stdout,        \* SpecCommand: the report entries printed, one per result
    exitStatus,    \* SpecCommand: the exit status once the command has ended
    cmdpc,         \* SpecCommand: where scanCmd.Run is; "idle" elsewhere
    templateCmd    \* SpecTemplate: the arguments and locals of templateCmd.Run

mergeVars == <<mheap, mtarget, msource, mpre, mpc>>

loadVars == <<lfs, lchart, lfiles, lst, lidx, lpc>>

resolveVars == <<rheap, rvalues, rrefs, rout, rpc>>

parseVars == <<pfile, pout, ppc>>

configVars == <<flags, args, repoFile, configFile, config, cfgpc>>

pureVars == <<mergeVars, loadVars, resolveVars, parseVars, configVars>>

cmdVars == <<format, marshalErr, stdout, exitStatus, cmdpc>>

scanVars == <<chartDirs, configValuesFiles, env, disk, gor, mutex, results, invalidCharts, wg,
              mainpc, spinner, returned, cmdVars>>

templateVars == <<templateCmd>>

vars == <<pureVars, scanVars, parseVars, configVars, templateVars>>

(***************************************************************************)
(* Values and documents                                                    *)
(***************************************************************************)
Nil == [k |-> "nil", v |-> <<>>]

Scalar(s) == [k |-> "scalar", v |-> <<s>>]

SeqV(items) == [k |-> "seq", v |-> items]

Ref(id) == [k |-> "map", v |-> <<id>>]

MapDoc(f) == [k |-> "map", v |-> f]

IsMap(val) == val.k = "map"

\* The functions from a subset of keys to vals: the maps over those keys.
MapsOver(keys, vals) == UNION { [ks -> vals] : ks \in SUBSET keys }

EmptyMap == [key \in {} |-> Nil]

\* m[key] = val, as the Go assignment leaves the map.
Put(m, key, val) == [x \in (DOMAIN m) \cup {key} |-> IF x = key THEN val ELSE m[x]]

(***************************************************************************)
(* yaml.Unmarshal into map[string]interface{}: every mapping of the        *)
(* document becomes a fresh object.                                        *)
(***************************************************************************)
RECURSIVE AllocMap(_, _)
RECURSIVE AllocKeys(_, _, _, _)

\* Allocates the mapping f (keys to documents) on heap h: [h, id].
AllocMap(h, f) ==
    LET id == Len(h) + 1
    IN  [h |-> AllocKeys(Append(h, EmptyMap), id, f, DOMAIN f), id |-> id]

AllocKeys(h, id, f, ks) ==
    IF ks = {} THEN h
    ELSE LET key == CHOOSE x \in ks : TRUE
             d   == f[key]
             h1  == IF IsMap(d)
                    THEN LET r == AllocMap(h, d.v)
                         IN  [r.h EXCEPT ![id] = Put(@, key, Ref(r.id))]
                    ELSE [h EXCEPT ![id] = Put(@, key, d)]
         IN  AllocKeys(h1, id, f, ks \ {key})

\* The content of object id as a document (the value a reader of the map sees).
RECURSIVE Deep(_, _)
Deep(h, id) ==
    [key \in DOMAIN h[id] |->
        IF IsMap(h[id][key]) THEN MapDoc(Deep(h, h[id][key].v[1])) ELSE h[id][key]]

\* The objects reachable from object id, itself included.
RECURSIVE Reach(_, _)
Reach(h, id) ==
    {id} \cup UNION { Reach(h, h[id][key].v[1]) : key \in {x \in DOMAIN h[id] : IsMap(h[id][x])} }

(***************************************************************************)
(* mergeMaps (renderer.go:161-173)                                         *)
(***************************************************************************)
\* Mutant of mergeMaps: every key of source overwrites, mappings included.
mergeMapsShallow(h, target, source) ==
    [h EXCEPT ![target] =
        [x \in (DOMAIN h[target]) \cup (DOMAIN h[source]) |->
            IF x \in DOMAIN h[source] THEN h[source][x] ELSE h[target][x]]]

\* Mutant of mergeMaps: a key that target already holds keeps target's value.
mergeMapsKeepTarget(h, target, source) ==
    [h EXCEPT ![target] =
        [x \in (DOMAIN h[target]) \cup (DOMAIN h[source]) |->
            IF x \in DOMAIN h[target] THEN h[target][x] ELSE h[source][x]]]

RECURSIVE mergeMaps(_, _, _)
RECURSIVE mergeKeys(_, _, _, _)

\* One iteration of the range loop for each key of ks; Go's iteration order is
\* unspecified and the iterations write different keys of target.
mergeKeys(h, target, source, ks) ==
    IF ks = {} THEN h
    ELSE LET key   == CHOOSE x \in ks : TRUE
             value == h[source][key]
             both  == /\ key \in DOMAIN h[target]
                      /\ IsMap(h[target][key])
                      /\ IsMap(value)
             h1    == IF both
                      THEN mergeMaps(h, h[target][key].v[1], value.v[1])
                      ELSE [h EXCEPT ![target] = Put(@, key, value)]
         IN  mergeKeys(h1, target, source, ks \ {key})

\* The heap after mergeMaps(target, source).
mergeMaps(h, target, source) == mergeKeys(h, target, source, DOMAIN h[source])

(***************************************************************************)
(* Strings                                                                 *)
(***************************************************************************)
\* The index of the first token sep in s, 0 when there is none.
IndexOf(s, sep) ==
    IF \E i \in 1..Len(s) : s[i] = sep
    THEN CHOOSE i \in 1..Len(s) : s[i] = sep /\ \A j \in 1..(i - 1) : s[j] # sep
    ELSE 0

\* strings.Split(s, sep) for a one-token separator: the pieces between the
\* separators, the empty ones included; one piece, s itself, when s has none.
RECURSIVE Split(_, _)
Split(s, sep) ==
    LET i == IndexOf(s, sep)
    IN  IF i = 0 THEN <<s>>
        ELSE <<SubSeq(s, 1, i - 1)>> \o Split(SubSeq(s, i + 1, Len(s)), sep)

\* strings.Contains(s, tok) for a one-token tok.
Contains(s, tok) == \E i \in 1..Len(s) : s[i] = tok

Digit(d) == <<"0", "1", "2", "3", "4", "5", "6", "7", "8", "9">>[d + 1]

\* The %d of fmt.Sprintf for n >= 0.
RECURSIVE Itoa(_)
Itoa(n) == IF n < 10 THEN <<Digit(n)>> ELSE Itoa(n \div 10) \o <<Digit(n % 10)>>

(***************************************************************************)
(* models.ValueReference (models/result.go:11-16)                          *)
(***************************************************************************)
ValueReference(name, file, line, fullText) ==
    [Name |-> name, File |-> file, Line |-> line, FullText |-> fullText]

(***************************************************************************)
(* checkNestedValueExists (renderer.go:125-150); currentMap is a value     *)
(***************************************************************************)
\* Mutant of checkNestedValueExists: the last key must hold a non-nil value.
RECURSIVE checkNestedValueExistsNonNil(_, _, _)
checkNestedValueExistsNonNil(keys, h, currentMap) ==
    IF Len(keys) = 0 \/ currentMap = Nil THEN FALSE
    ELSE IF ~IsMap(currentMap) THEN FALSE
    ELSE LET v == h[currentMap.v[1]]
         IN  IF Len(keys) = 1 THEN keys[1] \in DOMAIN v /\ v[keys[1]] # Nil
             ELSE IF keys[1] \in DOMAIN v /\ IsMap(v[keys[1]])
             THEN checkNestedValueExistsNonNil(Tail(keys), h, v[keys[1]])
             ELSE FALSE

RECURSIVE checkNestedValueExists(_, _, _)
checkNestedValueExists(keys, h, currentMap) ==
    IF Len(keys) = 0 \/ currentMap = Nil THEN FALSE
    ELSE IF ~IsMap(currentMap) THEN FALSE
    ELSE LET v == h[currentMap.v[1]]
         IN  IF Len(keys) = 1 THEN keys[1] \in DOMAIN v
             ELSE IF keys[1] \in DOMAIN v /\ IsMap(v[keys[1]])
             THEN checkNestedValueExists(Tail(keys), h, v[keys[1]])
             ELSE FALSE

(***************************************************************************)
(* CheckValueReferences (renderer.go:104-121)                              *)
(***************************************************************************)
\* Line 115: the diagnostic of one undefined reference.
UndefinedValueMessage(valueReference) ==
    <<"Undefined value: '">> \o valueReference.Name \o <<"' referenced in ">>
        \o valueReference.File \o <<" at line ">> \o Itoa(valueReference.Line)

\* Mutant of CheckValueReferences: a name already reported is not reported again.
RECURSIVE CheckValueReferencesDedup(_, _, _)
CheckValueReferencesDedup(valueReferences, h, values) ==
    IF valueReferences = <<>> THEN <<>>
    ELSE LET n     == Len(valueReferences)
             last  == valueReferences[n]
             front == SubSeq(valueReferences, 1, n - 1)
             rest  == CheckValueReferencesDedup(front, h, values)
         IN  IF checkNestedValueExists(Split(last.Name, "."), h, Ref(values))
                \/ \E i \in 1..(n - 1) : front[i].Name = last.Name
             THEN rest
             ELSE Append(rest, UndefinedValueMessage(last))

\* Mutant of CheckValueReferences: an index in brackets is dropped from the
\* name before the walk, so that a[0].a is looked up as a.a.
RECURSIVE CheckValueReferencesUnindexed(_, _, _)
CheckValueReferencesUnindexed(valueReferences, h, values) ==
    IF valueReferences = <<>> THEN <<>>
    ELSE LET valueReference == Head(valueReferences)
             keys == Split(SelectSeq(valueReference.Name, LAMBDA tok : tok \notin {"[", "0", "]"}), ".")
             rest == CheckValueReferencesUnindexed(Tail(valueReferences), h, values)
         IN  IF ~checkNestedValueExists(keys, h, Ref(values))
             THEN <<UndefinedValueMessage(valueReference)>> \o rest
             ELSE rest

RECURSIVE CheckValueReferences(_, _, _)
CheckValueReferences(valueReferences, h, values) ==
    IF valueReferences = <<>> THEN <<>>
    ELSE LET valueReference == Head(valueReferences)
             keys == Split(valueReference.Name, ".")
             rest == CheckValueReferences(Tail(valueReferences), h, values)
         IN  IF ~checkNestedValueExists(keys, h, Ref(values))
             THEN <<UndefinedValueMessage(valueReference)>> \o rest
             ELSE rest

(***************************************************************************)
(* Paths and files                                                         *)
(***************************************************************************)
\* filepath.Join of a clean directory path and a file name.
Join(dir, name) == IF dir = <<>> \/ dir = <<".">> THEN <<name>> ELSE dir \o <<"/", name>>

\* What a path holds.  st is "missing" (no such file), "staterr" (os.Stat fails
\* with another error, such as permission denied on a parent directory),
\* "unreadable" (os.Stat succeeds, os.ReadFile fails), "malformed" (the content
\* does not unmarshal into a mapping), "null" (an empty YAML document: the
\* unmarshalled map is nil) or "doc" (a mapping, held in doc).
File(st) == [st |-> st, doc |-> EmptyMap]

DocFile(f) == [st |-> "doc", doc |-> f]

\* os.Stat(path): "ok", "notexist" (os.IsNotExist holds of the error) or "other".
Stat(fs, path) ==
    IF path \notin DOMAIN fs \/ fs[path].st = "missing" THEN "notexist"
    ELSE IF fs[path].st = "staterr" THEN "other"
    ELSE "ok"

\* The text of the error os.Stat returns for the path: a *PathError whose
\* operation is "stat".
StatErrText(fs, path) ==
    IF Stat(fs, path) = "notexist" THEN <<"stat ">> \o path \o <<": no such file or directory">>
    ELSE <<"stat ">> \o path \o <<": permission denied">>

\* The text of the error os.ReadFile or yaml.Unmarshal returns for the file.
ErrText(fs, path) ==
    IF Stat(fs, path) = "notexist" THEN <<"open ">> \o path \o <<": no such file or directory">>
    ELSE IF fs[path].st \in {"staterr", "unreadable"} THEN <<"open ">> \o path \o <<": permission denied">>
    ELSE <<"yaml: unmarshal errors">>

(***************************************************************************)
(* ValuesLoader (renderer.go:81-100)                                       *)
(***************************************************************************)
\* [ok, h, id]: ok is FALSE when an error is returned; id is the object the
\* returned map is, 0 for the nil map.
ValuesLoader(h, fs, valuesFile) ==
    IF Stat(fs, valuesFile) # "ok" \/ fs[valuesFile].st \in {"unreadable", "malformed"}
    THEN [ok |-> FALSE, h |-> h, id |-> 0]
    ELSE IF fs[valuesFile].st = "null"
    THEN [ok |-> TRUE, h |-> h, id |-> 0]
    ELSE LET r == AllocMap(h, fs[valuesFile].doc)
         IN  [ok |-> TRUE, h |-> r.h, id |-> r.id]

(***************************************************************************)
(* loadAndMergeValues (renderer.go:488-527)                                *)
(* The locals are a record: h the heap, values the object id of the merged *)
(* map, errors the diagnostics, loaded the maps ValuesLoader returned so   *)
(* far, each with its content as it was loaded.                            *)
(***************************************************************************)
\* Lines 490-491: the locals before the first file.
LoadLocals0 ==
    [h |-> <<EmptyMap>>, values |-> 1, errors |-> <<>>, loaded |-> <<>>]

\* Lines 499-503 and 517-521: load one file and merge it, or record the error.
LoadOne(st, fs, valuesFile, errPrefix) ==
    LET r == ValuesLoader(st.h, fs, valuesFile)
    IN  IF ~r.ok
        THEN [st EXCEPT !.errors = Append(@, errPrefix \o ErrText(fs, valuesFile))]
        ELSE IF r.id = 0 THEN st
        ELSE [st EXCEPT !.h = mergeMaps(r.h, st.values, r.id),
                        !.loaded = Append(@, [id |-> r.id, doc |-> Deep(r.h, r.id),
                                              file |-> valuesFile])]

\* Mutant of LoadChartStatFailed: a chart without values.yaml gets a diagnostic.
LoadChartStatFailedStrict(st, fs, chartValuesFile) ==
    [st EXCEPT !.errors = Append(@, <<"Error checking values.yaml: ">>
                                    \o StatErrText(fs, chartValuesFile))]

\* Lines 504-507: os.Stat(chartValuesFile) has returned an error.
LoadChartStatFailed(st, fs, chartValuesFile) ==
    IF Stat(fs, chartValuesFile) = "other"
    THEN [st EXCEPT !.errors = Append(@, <<"Error checking values.yaml: ">>
                                         \o StatErrText(fs, chartValuesFile))]
    ELSE st

\* Lines 494-507: the chart's own values.yaml, when no one changes the files
\* between os.Stat and os.ReadFile.
LoadChartValues(st, fs, chartPath) ==
    LET chartValuesFile == Join(chartPath, "values.yaml")
    IN  IF Stat(fs, chartValuesFile) = "ok"
        THEN LoadOne(st, fs, chartValuesFile, <<"Error loading values.yaml: ">>)
        ELSE LoadChartStatFailed(st, fs, chartValuesFile)

\* Mutant of LoadAdditional: the file is merged under what is already there
\* (the earlier files win).
LoadAdditionalUnder(st, fs, chartPath, valuesFile) ==
    LET r == ValuesLoader(st.h, fs, valuesFile)
    IN  IF ~r.ok \/ r.id = 0 THEN st
        ELSE LET h1 == mergeMaps(r.h, r.id, st.values)
             IN  [st EXCEPT !.h = h1, !.values = r.id]

\* Lines 510-522: one iteration of the loop over the additional values files.
LoadAdditional(st, fs, chartPath, valuesFile) ==
    IF valuesFile = Join(chartPath, "values.yaml") THEN st
    ELSE LoadOne(st, fs, valuesFile,
                 <<"Error loading additional values file ">> \o valuesFile \o <<": ">>)

RECURSIVE LoadLoop(_, _, _, _, _)
LoadLoop(st, fs, chartPath, valuesFiles, i) ==
    IF i > Len(valuesFiles) THEN st
    ELSE LoadLoop(LoadAdditional(st, fs, chartPath, valuesFiles[i]), fs, chartPath,
                  valuesFiles, i + 1)

\* The locals when loadAndMergeValues returns (it returns values and errors).
loadAndMergeValues(fs, chartPath, valuesFiles) ==
    LoadLoop(LoadChartValues(LoadLocals0, fs, chartPath), fs, chartPath, valuesFiles, 1)

(***************************************************************************)
(* TemplateParser (renderer.go:31-75)                                      *)
(* A template text is a sequence of tokens: "{{", "}}", " ", "\n", "|",     *)
(* "#", single characters of names ("a", "b", "x", "0", ".", "_", "-",     *)
(* "[", "]") and the words ".Values.", "if" and "quote", each standing for *)
(* its characters.                                                         *)
(***************************************************************************)
\* The tokens the class [a-zA-Z0-9_.\[\]-] of the regular expression matches:
\* those made of letters, digits and the characters _ . [ ] - only.
NameClass == {"a", "b", "x", ".", "_", "-", "[", "]", "0", ".Values.", "if", "quote"}

\* The first index from i on at which line holds no token of toks.
RECURSIVE SkipWhile(_, _, _)
SkipWhile(line, i, toks) ==
    IF i <= Len(line) /\ line[i] \in toks THEN SkipWhile(line, i + 1, toks) ELSE i

\* Mutant of MatchAt: whatever follows the name, the placeholder matches.
MatchAtAnyTail(line, i) ==
    LET j == SkipWhile(line, i + 1, {" "})
        k == j + 1
        r == SkipWhile(line, k, NameClass)
    IN  IF /\ i <= Len(line) /\ line[i] = "{{"
           /\ j <= Len(line) /\ line[j] = ".Values."
           /\ r > k
        THEN [ok |-> TRUE, start |-> i, from |-> k, to |-> r, next |-> r]
        ELSE [ok |-> FALSE, start |-> i, from |-> 0, to |-> 0, next |-> i + 1]

\* The match of {{\s*\.Values\.([class]+)\s*}} starting at index i of line:
\* [ok, from, to, next], the capture group being line[from..to-1] and next the
\* index after the match.  The group is greedy; giving a class token back never
\* helps, since what follows the group has to be a space or "}}".
MatchAt(line, i) ==
    LET j == SkipWhile(line, i + 1, {" "})
        k == j + 1
        r == SkipWhile(line, k, NameClass)
        m == SkipWhile(line, r, {" "})
    IN  IF /\ i <= Len(line) /\ line[i] = "{{"
           /\ j <= Len(line) /\ line[j] = ".Values."
           /\ r > k
           /\ m <= Len(line) /\ line[m] = "}}"
        THEN [ok |-> TRUE, start |-> i, from |-> k, to |-> r, next |-> m + 1]
        ELSE [ok |-> FALSE, start |-> i, from |-> 0, to |-> 0, next |-> i + 1]

\* re.FindAllStringSubmatchIndex(line, -1): the matches from index i on, leftmost
\* first, not overlapping.
RECURSIVE FindAll(_, _)
FindAll(line, i) ==
    IF i > Len(line) THEN <<>>
    ELSE LET match == MatchAt(line, i)
         IN  IF match.ok THEN <<match>> \o FindAll(line, match.next)
             ELSE FindAll(line, i + 1)

\* Lines 47-71: the loop over the lines from line i on, refs being the
\* references found so far: [err, refs], err being <<>> when no error is returned.
RECURSIVE ParseLines(_, _, _, _)
RECURSIVE ParseMatches(_, _, _, _, _)
RECURSIVE ParseMatchesDedup(_, _, _, _, _)

\* Mutant of ParseMatches: a name already in the list is not added again.
ParseMatchesDedup(templateFile, lines, i, matches, refs) ==
    IF matches = <<>> THEN ParseLines(templateFile, lines, i + 1, refs)
    ELSE LET match     == Head(matches)
             line      == lines[i]
             reference == SubSeq(line, match.from, match.to - 1)
             fullText  == SubSeq(line, match.start, match.next - 1)
         IN  IF reference = <<>>
             THEN [err |-> <<"empty value reference: ">> \o fullText, refs |-> <<>>]
             ELSE IF \E k \in 1..Len(refs) : refs[k].Name = reference
             THEN ParseMatchesDedup(templateFile, lines, i, Tail(matches), refs)
             ELSE ParseMatchesDedup(templateFile, lines, i, Tail(matches),
                                    Append(refs, ValueReference(reference, templateFile, i, fullText)))

ParseMatches(templateFile, lines, i, matches, refs) ==
    IF matches = <<>> THEN ParseLines(templateFile, lines, i + 1, refs)
    ELSE LET match     == Head(matches)
             line      == lines[i]
             reference == SubSeq(line, match.from, match.to - 1)
             fullText  == SubSeq(line, match.start, match.next - 1)
         IN  IF reference = <<>>
             THEN [err |-> <<"empty value reference: ">> \o fullText, refs |-> <<>>]
             ELSE ParseMatches(templateFile, lines, i, Tail(matches),
                               Append(refs, ValueReference(reference, templateFile, i, fullText)))

ParseLines(templateFile, lines, i, refs) ==
    IF i > Len(lines) THEN [err |-> <<>>, refs |-> refs]
    ELSE ParseMatches(templateFile, lines, i, FindAll(lines[i], 1), refs)

\* A template file: st is "ok" (content holds the text), "unreadable"
\* (os.ReadFile fails), "missing" (the file is not there), "walkerr" (os.Lstat
\* fails for the entry) or "dir" (a directory); name is the entry's path below
\* the templates directory.
TemplateParser(templateFile, entry) ==
    IF entry.st = "missing"
    THEN [err |-> <<"open ">> \o templateFile \o <<": no such file or directory">>, refs |-> <<>>]
    ELSE IF entry.st # "ok"
    THEN [err |-> <<"open ">> \o templateFile \o <<": permission denied">>, refs |-> <<>>]
    ELSE ParseLines(templateFile, Split(entry.content, "\n"), 1, <<>>)

(***************************************************************************)
(* parseTemplates (renderer.go:431-484)                                    *)
(* The templates directory of a chart: st is "missing", "staterr" (os.Stat *)
(* fails otherwise), "file" (not a directory) or "dir", with entries the   *)
(* files filepath.Walk visits below it, in its (lexical) order.            *)
(***************************************************************************)
\* strings.HasSuffix(name, ".yaml"), the extension being one token.
HasYamlSuffix(name) == Len(name) > 0 /\ name[Len(name)] = ".yaml"

\* The text of the error os.Lstat returns to filepath.Walk for an entry whose
\* st is "missing" (it is no longer there) or "walkerr".
LstatErrText(path, st) ==
    IF st = "missing" THEN <<"lstat ">> \o path \o <<": no such file or directory">>
    ELSE <<"lstat ">> \o path \o <<": permission denied">>

\* Lines 459-463: the callback is handed an error; acc is [refs, errors].
WalkError(acc, path, err) ==
    [acc EXCEPT !.errors = Append(@, <<"Error accessing file ">> \o path \o <<": ">> \o err)]

\* Line 466: the entry is a file whose name ends in .yaml.
IsTemplateFile(entry) == entry.st # "dir" /\ HasYamlSuffix(entry.name)

\* Lines 468-473: the file is parsed and its references or its error kept.
WalkParse(acc, path, entry) ==
    LET r == TemplateParser(path, entry)
    IN  IF r.err # <<>>
        THEN [acc EXCEPT !.errors = Append(@,
                <<"Error parsing template file ">> \o path \o <<": ">> \o r.err)]
        ELSE [acc EXCEPT !.refs = @ \o r.refs]

\* Lines 458-476: the walk over the entries of a directory that no one changes
\* meanwhile; acc is [refs, errors].
RECURSIVE WalkTemplates(_, _, _)
WalkTemplates(templatesDir, entries, acc) ==
    IF entries = <<>> THEN acc
    ELSE LET entry == Head(entries)
             path  == templatesDir \o <<"/">> \o entry.name
             acc1  ==
                IF entry.st \in {"walkerr", "missing"}
                THEN WalkError(acc, path, LstatErrText(path, entry.st))
                ELSE IF IsTemplateFile(entry) THEN WalkParse(acc, path, entry)
                ELSE acc
         IN  WalkTemplates(templatesDir, Tail(entries), acc1)

\* Lines 440-455: os.Stat(templatesDir) and the tests on it, st being what the
\* path holds.  [walk, errors]: walk says whether the directory is walked.
parseTemplatesStat(templatesDir, st) ==
    IF st = "missing" THEN [walk |-> FALSE, errors |-> <<>>]
    ELSE IF st = "staterr"
    THEN [walk |-> FALSE,
          errors |-> << <<"Error accessing templates directory: stat ">>
                         \o templatesDir \o <<": permission denied">> >>]
    ELSE IF st = "file"
    THEN [walk |-> FALSE,
          errors |-> << <<"Expected templates to be a directory but found a file: ">>
                         \o templatesDir >>]
    ELSE [walk |-> TRUE, errors |-> <<>>]

\* [refs, errors], when no one changes the directory meanwhile.
parseTemplates(chartPath, templates) ==
    LET templatesDir == Join(chartPath, "templates")
        r == parseTemplatesStat(templatesDir, templates.st)
    IN  IF r.walk
        THEN WalkTemplates(templatesDir, templates.entries, [refs |-> <<>>, errors |-> <<>>])
        ELSE [refs |-> <<>>, errors |-> r.errors]

(***************************************************************************)
(* lintChart and parseErrorLogs (renderer.go:399-423, 568-580)             *)
(* The run of helm lint is [exit, stdout, stderr].                         *)
(***************************************************************************)
parseErrorLogs(output) ==
    SelectSeq(Split(output, "\n"), LAMBDA line : Contains(line, "[ERROR]"))

lintChart(run) ==
    IF run.exit # 0 THEN parseErrorLogs(run.stdout \o run.stderr) ELSE <<>>

(***************************************************************************)
(* checkValuesFilesExistence (renderer.go:386-395)                         *)
(***************************************************************************)
RECURSIVE checkValuesFilesExistence(_, _)
checkValuesFilesExistence(fs, valuesFiles) ==
    IF valuesFiles = <<>> THEN <<>>
    ELSE LET valuesFile == Head(valuesFiles)
             rest == checkValuesFilesExistence(fs, Tail(valuesFiles))
         IN  IF Stat(fs, valuesFile) = "notexist"
             THEN << <<"Values file does not exist: ">> \o valuesFile >> \o rest
             ELSE rest

(***************************************************************************)
(* handleDependencies and cleanupDependencies (renderer.go:333-381)        *)
(* The disk is [charts, locks, tmp, subcharts, gone, archives]: the chart   *)
(* paths that hold a charts/ directory, those that hold a Chart.lock, the  *)
(* temporary directories (named by the goroutine that made them), the      *)
(* chart directories that stand below some chart's charts/ directory, the  *)
(* paths below these that have been unlinked, and the chart paths whose    *)
(* charts/ directory holds the archive helm dependency update downloads.   *)
(* dep says what the chart's Chart.yaml and the tools do: "unreadable"     *)
(* (there is no Chart.yaml), "malformed", "nodeps", "mktempfail",          *)
(* "updatefail" or "updated".                                              *)
(***************************************************************************)
\* path lies below the directory dir.
IsBelow(path, dir) ==
    /\ Len(path) > Len(dir) + 1
    /\ SubSeq(path, 1, Len(dir)) = dir
    /\ path[Len(dir) + 1] = "/"

\* Lines 334-348: up to os.MkdirTemp.  [done, ok, errors, disk]: done is FALSE
\* when helm dependency update is still to run.
handleDependenciesBegin(dk, dep, chartPath, id) ==
    IF dep \in {"unreadable", "malformed"}
    THEN [done |-> TRUE, ok |-> FALSE, disk |-> dk,
          errors |-> << <<"Error reading Chart.yaml: ">>
                         \o (IF dep = "unreadable"
                             THEN <<"open ">> \o Join(chartPath, "Chart.yaml")
                                      \o <<": no such file or directory">>
                             ELSE <<"yaml: unmarshal errors">>) >>]
    ELSE IF dep = "nodeps"
    THEN [done |-> TRUE, ok |-> TRUE, disk |-> dk, errors |-> <<>>]
    ELSE IF dep = "mktempfail"
    THEN [done |-> TRUE, ok |-> FALSE, disk |-> dk,
          errors |-> << <<"Error creating temp cache dir: ", "mkdir: permission denied">> >>]
    ELSE [done |-> FALSE, ok |-> TRUE, disk |-> [dk EXCEPT !.tmp = @ \cup {id}],
          errors |-> <<>>]

\* Mutant of handleDependenciesUpdate: the cache directory is removed only when
\* the update succeeds.
handleDependenciesUpdateLeaks(dk, dep, chartPath, id) ==
    IF dep = "updated"
    THEN [ok |-> TRUE, errors |-> <<>>,
          disk |-> [dk EXCEPT !.charts = @ \cup {chartPath},
                                !.locks = @ \cup {chartPath},
                                !.archives = @ \cup {chartPath},
                                !.tmp = @ \ {id}]]
    ELSE [ok |-> FALSE,
          errors |-> << <<"Error updating dependencies: ", "exit status 1">> >>,
          disk |-> dk]

\* Lines 350-360: helm dependency update, and the deferred os.RemoveAll(cacheDir).
handleDependenciesUpdate(dk, dep, chartPath, id) ==
    IF dep = "updated"
    THEN [ok |-> TRUE, errors |-> <<>>,
          disk |-> [dk EXCEPT !.charts = @ \cup {chartPath},
                                !.locks = @ \cup {chartPath},
                                !.archives = @ \cup {chartPath},
                                !.tmp = @ \ {id}]]
    ELSE [ok |-> FALSE,
          errors |-> << <<"Error updating dependencies: ", "exit status 1">> >>,
          disk |-> [dk EXCEPT !.tmp = @ \ {id}]]

\* cleanupDependencies when no one else touches the disk meanwhile:
\* os.RemoveAll(chartsDir) takes with it every chart directory below chartsDir.
cleanupDependencies(dk, chartPath) ==
    LET chartsDir == Join(chartPath, "charts")
    IN  [dk EXCEPT !.charts = @ \ {chartPath},
                   !.subcharts = {c \in @ : ~IsBelow(c, chartsDir)},
                   !.gone = {p \in @ : ~IsBelow(p, chartsDir)},
                   !.archives = @ \ {chartPath},
                   !.locks = @ \ {chartPath}]

(***************************************************************************)
(* What a scan finds on disk                                               *)
(* env holds what each chart directory held when the charts were           *)
(* discovered.  A chart directory that stood below a charts/ directory and *)
(* is no longer in dk.subcharts has been removed since, with its files;    *)
(* dk.gone holds the paths below the chart directories still standing that *)
(* an os.RemoveAll under way has already unlinked.                         *)
(***************************************************************************)
\* Some path has a "charts" directory above chartPath.
IsSubchart(chartPath) ==
    \E k \in 1..Len(chartPath) : chartPath[k] = "charts"

Removed(dk, chartPath) == IsSubchart(chartPath) /\ chartPath \notin dk.subcharts

\* The path is no longer there.
Gone(dk, path) ==
    \/ path \in dk.gone
    \/ \E c \in DOMAIN env.charts : Removed(dk, c) /\ (path = c \/ IsBelow(path, c))

\* What the tools answer for a chart directory that does not exist: Chart.yaml
\* cannot be read, helm lint fails on the missing Chart.yaml without an
\* "[ERROR]" line, and there is no templates directory.
RemovedChart ==
    [dep |-> "unreadable",
     lint |-> [exit |-> 1,
               stdout |-> <<"==> Linting", "\n",
                            "Error unable to check Chart.yaml file in chart", "\n">>,
               stderr |-> <<"Error: 1 chart(s) linted, 1 chart(s) failed", "\n">>],
     templates |-> [st |-> "missing", entries |-> <<>>]]

\* What os.ReadFile of Chart.yaml and helm lint find for the chart directory.
ChartOnDisk(dk, chartPath) ==
    IF Gone(dk, Join(chartPath, "Chart.yaml")) THEN RemovedChart ELSE env.charts[chartPath]

FsOnDisk(dk) ==
    [path \in DOMAIN env.fs |-> IF Gone(dk, path) THEN File("missing") ELSE env.fs[path]]

\* The paths below the chart directory chartPath that the scans read:
\* Chart.yaml, values.yaml, the templates directory and what it holds.
ChartPaths(chartPath) ==
    LET e            == env.charts[chartPath]
        templatesDir == Join(chartPath, "templates")
        valuesFile   == Join(chartPath, "values.yaml")
    IN  (IF e.dep # "unreadable" THEN {Join(chartPath, "Chart.yaml")} ELSE {})
        \cup (IF valuesFile \in DOMAIN env.fs /\ env.fs[valuesFile].st # "missing"
              THEN {valuesFile} ELSE {})
        \cup (IF e.templates.st # "missing" THEN {templatesDir} ELSE {})
        \cup {templatesDir \o <<"/">> \o e.templates.entries[k].name :
                k \in DOMAIN e.templates.entries}

\* os.RemoveAll(dir) (renderer.go:377) unlinks what stands below dir entry by
\* entry, a directory after what it holds, in the order in which the
\* directories list their entries.  Remaining: the paths below dir that are
\* still there; Removable: those of them that can be unlinked next.
Remaining(dk, dir) ==
    {p \in UNION {ChartPaths(c) \cup {c} : c \in {c \in DOMAIN env.charts : IsBelow(c, dir)}} :
        ~Gone(dk, p)}

Removable(dk, dir) ==
    {p \in Remaining(dk, dir) : \A q \in Remaining(dk, dir) : ~IsBelow(q, p)}

\* One unlinkat of os.RemoveAll: a file, or a directory that holds nothing.
Unlink(dk, path) ==
    IF path \in DOMAIN env.charts
    THEN [dk EXCEPT !.subcharts = @ \ {path}, !.gone = {q \in @ : ~IsBelow(q, path)}]
    ELSE [dk EXCEPT !.gone = @ \cup {path}]

\* os.RemoveAll(chartsDir) opens and reads chartsDir: nothing is done when it
\* is not there.  [found, names]: names holds the archive helm dependency
\* update has written when the directory lists it; what the directory holds
\* of chart directories does not change but by being unlinked, and is read
\* from the disk.
RemoveAllOpen(dk, chartPath) ==
    IF chartPath \in dk.charts
    THEN [found |-> TRUE,
          names |-> IF chartPath \in dk.archives
                    THEN {Join(Join(chartPath, "charts"), "dep.tgz")} ELSE {}]
    ELSE [found |-> FALSE, names |-> {}]

\* The last unlinkat of os.RemoveAll(chartsDir), of chartsDir itself.  It
\* fails, and the directory stays, when helm dependency update has written an
\* archive into the directory since the call has unlinked what it had read
\* (the error is dropped).
RemoveAllRmdir(dk, chartPath) ==
    IF chartPath \in dk.archives THEN dk ELSE [dk EXCEPT !.charts = @ \ {chartPath}]

\* os.Remove(chartLockFile) (renderer.go:379).
RemoveLock(dk, chartPath) == [dk EXCEPT !.locks = @ \ {chartPath}]

(***************************************************************************)
(* ScanHelmChart (renderer.go:180-234) as the steps of the goroutine that  *)
(* calls it, and processCharts (main.go:446-495)                           *)
(***************************************************************************)
NilValues == [isNil |-> TRUE, doc |-> EmptyMap]

NoRet == [set |-> FALSE, success |-> FALSE, errors |-> <<>>, values |-> NilValues,
          undefinedValues |-> <<>>]

\* What ScanHelmChart returns.
Ret(success, errors, values, undefinedValues) ==
    [set |-> TRUE, success |-> success, errors |-> errors, values |-> values,
     undefinedValues |-> undefinedValues]

NoVals == [h |-> <<>>, values |-> 0]

\* The locals of parseTemplates and of loadAndMergeValues outside the calls.
NoWalk == [refs |-> <<>>, errors |-> <<>>]

NoLoad == [h |-> <<>>, values |-> 0, errors |-> <<>>, loaded |-> <<>>]

\* The goroutine of main.go:461 for chartDir, before its first step.  errors is
\* the local lintErrors, ran the stages of ScanHelmChart it has run so far,
\* read the value of invalidCharts that invalidCharts++ has loaded; walk is
\* the locals of parseTemplates (valueReferences and errors), names the
\* entries os.RemoveAll has read in the charts directory and, before, the
\* entries filepath.Walk has read in the templates directory, k the entry the
\* walk is at or the values file the loop of loadAndMergeValues is at, load
\* the locals of loadAndMergeValues.
Goroutine(chartDir) ==
    [pc |-> "start", chartDir |-> chartDir, errors |-> <<>>, refs |-> <<>>,
     vals |-> NoVals, undefined |-> <<>>, ran |-> <<>>, ret |-> NoRet,
     read |-> 0, walk |-> NoWalk, names |-> {}, k |-> 0, load |-> NoLoad]

\* models.Result as main.go:480-486 builds it.
Result(chartDir, ret) ==
    [ChartPath |-> chartDir, Success |-> ret.success, Errors |-> ret.errors,
     Values |-> ret.values, UndefinedValues |-> ret.undefinedValues]

\* fmt.Sprintf(" Scanning: %s", chartDirs), the %s of a slice of strings.
RECURSIVE JoinSpaces(_)
JoinSpaces(strs) ==
    IF strs = <<>> THEN <<>>
    ELSE IF Len(strs) = 1 THEN strs[1]
    ELSE strs[1] \o <<" ">> \o JoinSpaces(Tail(strs))

ScanningSuffix(dirs) == <<" Scanning: ", "[">> \o JoinSpaces(dirs) \o <<"]">>

\* Lines 447-459 and the go statements of 460-488.
ProcessChartsStart ==
    /\ mainpc = "call"
    /\ results' = <<>>
    /\ invalidCharts' = 0
    /\ spinner' = [spinner EXCEPT !.active = TRUE]
    /\ wg' = Len(chartDirs)
    /\ gor' = [i \in 1..Len(chartDirs) |-> Goroutine(chartDirs[i])]
    /\ mainpc' = "wait"
    /\ UNCHANGED <<chartDirs, configValuesFiles, env, disk, mutex, returned,
                   pureVars, templateVars, cmdVars>>

\* Mutant of GoStart: the mutex is taken before ScanHelmChart is called.
GoStartHoldsMutex(i) ==
    /\ gor[i].pc = "start"
    /\ mutex = 0
    /\ mutex' = i
    /\ spinner' = [spinner EXCEPT !.suffix = ScanningSuffix(chartDirs)]
    /\ gor' = [gor EXCEPT ![i].pc = "scan"]
    /\ UNCHANGED <<chartDirs, configValuesFiles, env, disk, results, invalidCharts, wg,
                   mainpc, returned,
                   pureVars, templateVars, cmdVars>>

\* main.go:465.
GoStart(i) ==
    /\ gor[i].pc = "start"
    /\ spinner' = [spinner EXCEPT !.suffix = ScanningSuffix(chartDirs)]
    /\ gor' = [gor EXCEPT ![i].pc = "scan"]
    /\ UNCHANGED <<chartDirs, configValuesFiles, env, disk, mutex, results, invalidCharts, wg,
                   mainpc, returned,
                   pureVars, templateVars, cmdVars>>

\* renderer.go:181-189 up to os.MkdirTemp in handleDependencies.
ScanEnter(i) ==
    /\ gor[i].pc = "scan"
    /\ LET chartPath == gor[i].chartDir
       IN  IF chartPath = <<>>
           THEN /\ gor' = [gor EXCEPT ![i].pc = "lock",
                               ![i].ret = Ret(FALSE, << <<"Chart path is empty">> >>,
                                              NilValues, <<>>)]
                /\ disk' = disk
           ELSE LET r == handleDependenciesBegin(disk, ChartOnDisk(disk, chartPath).dep,
                                                 chartPath, i)
                IN  /\ disk' = r.disk
                    /\ gor' = [gor EXCEPT
                          ![i].ran = Append(@, "deps"),
                          ![i].pc = IF ~r.done THEN "depupdate"
                                    ELSE IF r.ok THEN "valcheck" ELSE "lock",
                          ![i].ret = IF r.done /\ ~r.ok
                                     THEN Ret(FALSE, r.errors, NilValues, <<>>) ELSE @]
    /\ UNCHANGED <<chartDirs, configValuesFiles, env, mutex, results, invalidCharts, wg, mainpc,
                   spinner, returned,
                   pureVars, templateVars, cmdVars>>

\* renderer.go:350-360 and 186-189.
ScanDepUpdate(i) ==
    /\ gor[i].pc = "depupdate"
    /\ LET chartPath == gor[i].chartDir
           r == handleDependenciesUpdate(disk, ChartOnDisk(disk, chartPath).dep, chartPath, i)
       IN  /\ disk' = r.disk
           /\ gor' = [gor EXCEPT
                 ![i].pc = IF r.ok THEN "valcheck" ELSE "lock",
                 ![i].ret = IF r.ok THEN @ ELSE Ret(FALSE, r.errors, NilValues, <<>>)]
    /\ UNCHANGED <<chartDirs, configValuesFiles, env, mutex, results, invalidCharts, wg, mainpc,
                   spinner, returned,
                   pureVars, templateVars, cmdVars>>

\* Mutant of ScanValuesFiles: a missing values file is reported and the scan
\* goes on to lint.
ScanValuesFilesContinues(i) ==
    /\ gor[i].pc = "valcheck"
    /\ LET missingFilesErrors ==
               IF Len(configValuesFiles) > 0 THEN checkValuesFilesExistence(FsOnDisk(disk), configValuesFiles)
               ELSE <<>>
       IN  gor' = [gor EXCEPT
                 ![i].ran = Append(@, "valcheck"),
                 ![i].errors = missingFilesErrors,
                 ![i].pc = "lint"]
    /\ UNCHANGED <<chartDirs, configValuesFiles, env, disk, mutex, results, invalidCharts, wg,
                   mainpc, spinner, returned,
                   pureVars, templateVars, cmdVars>>

\* renderer.go:192-203.
ScanValuesFiles(i) ==
    /\ gor[i].pc = "valcheck"
    /\ LET missingFilesErrors ==
               IF Len(configValuesFiles) > 0 THEN checkValuesFilesExistence(FsOnDisk(disk), configValuesFiles)
               ELSE <<>>
       IN  gor' = [gor EXCEPT
                 ![i].ran = Append(@, "valcheck"),
                 ![i].pc = IF Len(missingFilesErrors) > 0 THEN "lock" ELSE "lint",
                 ![i].ret = IF Len(missingFilesErrors) > 0
                            THEN Ret(FALSE, missingFilesErrors, NilValues, <<>>) ELSE @]
    /\ UNCHANGED <<chartDirs, configValuesFiles, env, disk, mutex, results, invalidCharts, wg,
                   mainpc, spinner, returned,
                   pureVars, templateVars, cmdVars>>

\* renderer.go:206.
ScanLint(i) ==
    /\ gor[i].pc = "lint"
    /\ gor' = [gor EXCEPT
          ![i].ran = Append(@, "lint"),
          ![i].errors = lintChart(ChartOnDisk(disk, gor[i].chartDir).lint),
          ![i].pc = "parse"]
    /\ UNCHANGED <<chartDirs, configValuesFiles, env, disk, mutex, results, invalidCharts, wg,
                   mainpc, spinner, returned,
                   pureVars, templateVars, cmdVars>>

\* The templates directory of the goroutine's chart, its entries, and the path
\* of an entry.
TemplatesDirOf(g) == Join(g.chartDir, "templates")

EntriesOf(g) == env.charts[g.chartDir].templates.entries

EntryPath(g, k) == TemplatesDirOf(g) \o <<"/">> \o EntriesOf(g)[k].name

\* The entry as it is on disk now: "missing" when it has been unlinked.
EntryOnDisk(dk, g, k) ==
    IF Gone(dk, EntryPath(g, k)) THEN [EntriesOf(g)[k] EXCEPT !.st = "missing"]
    ELSE EntriesOf(g)[k]

\* The walk goes on with the first of the entries read that comes after
\* entry k, or ends.
NextEntry(g, k) ==
    IF \E n \in g.names : n > k
    THEN [pc |-> "walkentry", k |-> CHOOSE n \in g.names : n > k /\ \A m \in g.names : m > k => n <= m]
    ELSE [pc |-> "parsed", k |-> 0]

\* renderer.go:437-455: os.Stat(templatesDir) and the tests on its result.
ScanParseStat(i) ==
    /\ gor[i].pc = "parse"
    /\ LET g  == gor[i]
           st == IF Gone(disk, TemplatesDirOf(g)) THEN "missing"
                 ELSE env.charts[g.chartDir].templates.st
           r  == parseTemplatesStat(TemplatesDirOf(g), st)
       IN  gor' = [gor EXCEPT
                 ![i].walk = [refs |-> <<>>, errors |-> r.errors],
                 ![i].pc = IF r.walk THEN "walkroot" ELSE "parsed"]
    /\ UNCHANGED <<chartDirs, configValuesFiles, env, disk, mutex, results, invalidCharts, wg,
                   mainpc, spinner, returned,
                   pureVars, templateVars, cmdVars>>

\* renderer.go:458: filepath.Walk calls os.Lstat(templatesDir) and, when that
\* fails, the callback with the error.
ScanWalkRoot(i) ==
    /\ gor[i].pc = "walkroot"
    /\ LET g == gor[i]
       IN  IF Gone(disk, TemplatesDirOf(g))
           THEN gor' = [gor EXCEPT
                    ![i].walk = WalkError(@, TemplatesDirOf(g),
                                          LstatErrText(TemplatesDirOf(g), "missing")),
                    ![i].pc = "parsed"]
           ELSE gor' = [gor EXCEPT ![i].pc = "walkdir"]
    /\ UNCHANGED <<chartDirs, configValuesFiles, env, disk, mutex, results, invalidCharts, wg,
                   mainpc, spinner, returned,
                   pureVars, templateVars, cmdVars>>

\* renderer.go:458: filepath.Walk reads the names in templatesDir and calls the
\* callback for the directory, with the error when it cannot be read; names is
\* the entries that are there.
ScanWalkDir(i) ==
    /\ gor[i].pc = "walkdir"
    /\ LET g == gor[i]
       IN  IF Gone(disk, TemplatesDirOf(g))
           THEN gor' = [gor EXCEPT
                    ![i].walk = WalkError(@, TemplatesDirOf(g),
                                    <<"open ">> \o TemplatesDirOf(g)
                                        \o <<": no such file or directory">>),
                    ![i].pc = "parsed"]
           ELSE LET names == {k \in DOMAIN EntriesOf(g) : ~Gone(disk, EntryPath(g, k))}
                    next  == NextEntry([g EXCEPT !.names = names], 0)
                IN  gor' = [gor EXCEPT ![i].names = names, ![i].k = next.k, ![i].pc = next.pc]
    /\ UNCHANGED <<chartDirs, configValuesFiles, env, disk, mutex, results, invalidCharts, wg,
                   mainpc, spinner, returned,
                   pureVars, templateVars, cmdVars>>

\* Mutant of ScanWalkEntry: the walk ends at the first entry that cannot be
\* accessed.
ScanWalkEntryStops(i) ==
    /\ gor[i].pc = "walkentry"
    /\ LET g     == gor[i]
           entry == EntryOnDisk(disk, g, g.k)
           path  == EntryPath(g, g.k)
           next  == NextEntry(g, g.k)
       IN  IF entry.st \in {"walkerr", "missing"}
           THEN gor' = [gor EXCEPT
                    ![i].walk = WalkError(@, path, LstatErrText(path, entry.st)),
                    ![i].k = 0, ![i].pc = "parsed"]
           ELSE IF IsTemplateFile(entry)
           THEN gor' = [gor EXCEPT ![i].pc = "walkread"]
           ELSE gor' = [gor EXCEPT ![i].k = next.k, ![i].pc = next.pc]
    /\ UNCHANGED <<chartDirs, configValuesFiles, env, disk, mutex, results, invalidCharts, wg,
                   mainpc, spinner, returned,
                   pureVars, templateVars, cmdVars>>

\* renderer.go:458-466: filepath.Walk calls os.Lstat for the next entry and the
\* callback with what it gives, up to the call of TemplateParser.
ScanWalkEntry(i) ==
    /\ gor[i].pc = "walkentry"
    /\ LET g     == gor[i]
           entry == EntryOnDisk(disk, g, g.k)
           path  == EntryPath(g, g.k)
           next  == NextEntry(g, g.k)
       IN  IF entry.st \in {"walkerr", "missing"}
           THEN gor' = [gor EXCEPT
                    ![i].walk = WalkError(@, path, LstatErrText(path, entry.st)),
                    ![i].k = next.k, ![i].pc = next.pc]
           ELSE IF IsTemplateFile(entry)
           THEN gor' = [gor EXCEPT ![i].pc = "walkread"]
           ELSE gor' = [gor EXCEPT ![i].k = next.k, ![i].pc = next.pc]
    /\ UNCHANGED <<chartDirs, configValuesFiles, env, disk, mutex, results, invalidCharts, wg,
                   mainpc, spinner, returned,
                   pureVars, templateVars, cmdVars>>

\* renderer.go:468-475: TemplateParser reads and parses the file.
ScanWalkRead(i) ==
    /\ gor[i].pc = "walkread"
    /\ LET g    == gor[i]
           next == NextEntry(g, g.k)
       IN  gor' = [gor EXCEPT
                 ![i].walk = WalkParse(@, EntryPath(g, g.k), EntryOnDisk(disk, g, g.k)),
                 ![i].k = next.k, ![i].pc = next.pc]
    /\ UNCHANGED <<chartDirs, configValuesFiles, env, disk, mutex, results, invalidCharts, wg,
                   mainpc, spinner, returned,
                   pureVars, templateVars, cmdVars>>

\* Mutant of ScanParse: the template diagnostics replace the lint diagnostics.
ScanParseOverwrites(i) ==
    /\ gor[i].pc = "parsed"
    /\ gor' = [gor EXCEPT
          ![i].ran = Append(@, "parse"),
          ![i].refs = gor[i].walk.refs,
          ![i].errors = gor[i].walk.errors,
          ![i].walk = NoWalk, ![i].names = {},
          ![i].pc = "load"]
    /\ UNCHANGED <<chartDirs, configValuesFiles, env, disk, mutex, results, invalidCharts, wg,
                   mainpc, spinner, returned,
                   pureVars, templateVars, cmdVars>>

\* renderer.go:478-483 and 209-210: parseTemplates returns and its diagnostics
\* are appended to those of lint.
ScanParse(i) ==
    /\ gor[i].pc = "parsed"
    /\ gor' = [gor EXCEPT
          ![i].ran = Append(@, "parse"),
          ![i].refs = gor[i].walk.refs,
          ![i].errors = @ \o gor[i].walk.errors,
          ![i].walk = NoWalk, ![i].names = {},
          ![i].pc = "load"]
    /\ UNCHANGED <<chartDirs, configValuesFiles, env, disk, mutex, results, invalidCharts, wg,
                   mainpc, spinner, returned,
                   pureVars, templateVars, cmdVars>>

\* renderer.go:213 and 488-497, 504-507: os.Stat(chartValuesFile).
ScanLoadStat(i) ==
    /\ gor[i].pc = "load"
    /\ LET chartValuesFile == Join(gor[i].chartDir, "values.yaml")
           fs == FsOnDisk(disk)
       IN  IF Stat(fs, chartValuesFile) = "ok"
           THEN gor' = [gor EXCEPT ![i].load = LoadLocals0, ![i].pc = "loadchart"]
           ELSE gor' = [gor EXCEPT
                    ![i].load = LoadChartStatFailed(LoadLocals0, fs, chartValuesFile),
                    ![i].k = 1, ![i].pc = "loadfile"]
    /\ UNCHANGED <<chartDirs, configValuesFiles, env, disk, mutex, results, invalidCharts, wg,
                   mainpc, spinner, returned,
                   pureVars, templateVars, cmdVars>>

\* renderer.go:499-503: ValuesLoader reads the chart's values.yaml.
ScanLoadChart(i) ==
    /\ gor[i].pc = "loadchart"
    /\ gor' = [gor EXCEPT
          ![i].load = LoadOne(@, FsOnDisk(disk), Join(gor[i].chartDir, "values.yaml"),
                              <<"Error loading values.yaml: ">>),
          ![i].k = 1, ![i].pc = "loadfile"]
    /\ UNCHANGED <<chartDirs, configValuesFiles, env, disk, mutex, results, invalidCharts, wg,
                   mainpc, spinner, returned,
                   pureVars, templateVars, cmdVars>>

\* renderer.go:510-522: one iteration of the loop over the values files.
ScanLoadFile(i) ==
    /\ gor[i].pc = "loadfile"
    /\ gor[i].k <= Len(configValuesFiles)
    /\ gor' = [gor EXCEPT
          ![i].load = LoadAdditional(@, FsOnDisk(disk), gor[i].chartDir,
                                     configValuesFiles[gor[i].k]),
          ![i].k = @ + 1]
    /\ UNCHANGED <<chartDirs, configValuesFiles, env, disk, mutex, results, invalidCharts, wg,
                   mainpc, spinner, returned,
                   pureVars, templateVars, cmdVars>>

\* renderer.go:526 and 213-219: loadAndMergeValues returns and its
\* diagnostics are appended.
ScanLoad(i) ==
    /\ gor[i].pc = "loadfile"
    /\ gor[i].k > Len(configValuesFiles)
    /\ gor' = [gor EXCEPT
          ![i].ran = Append(@, "load"),
          ![i].vals = [h |-> gor[i].load.h, values |-> gor[i].load.values],
          ![i].errors = @ \o gor[i].load.errors,
          ![i].load = NoLoad, ![i].k = 0,
          ![i].pc = "check"]
    /\ UNCHANGED <<chartDirs, configValuesFiles, env, disk, mutex, results, invalidCharts, wg,
                   mainpc, spinner, returned,
                   pureVars, templateVars, cmdVars>>

\* renderer.go:222.
ScanCheck(i) ==
    /\ gor[i].pc = "check"
    /\ gor' = [gor EXCEPT
          ![i].ran = Append(@, "check"),
          ![i].undefined = CheckValueReferences(gor[i].refs, gor[i].vals.h,
                                                gor[i].vals.values),
          ![i].pc = "return"]
    /\ UNCHANGED <<chartDirs, configValuesFiles, env, disk, mutex, results, invalidCharts, wg,
                   mainpc, spinner, returned,
                   pureVars, templateVars, cmdVars>>

\* Mutant of ScanResult: success looks at the lint, template and load diagnostics
\* and not at the undefined values.
ScanResultIgnoresUndefined(g) ==
    LET allErrors == g.errors \o g.undefined
    IN  Ret(Len(g.errors) = 0, allErrors,
            [isNil |-> FALSE, doc |-> Deep(g.vals.h, g.vals.values)], g.undefined)

\* Mutant of ScanResult: the undefined-value diagnostics are put in front of
\* the other diagnostics.
ScanResultUndefinedFirst(g) ==
    LET allErrors == g.undefined \o g.errors
    IN  Ret(Len(allErrors) = 0, allErrors,
            [isNil |-> FALSE, doc |-> Deep(g.vals.h, g.vals.values)], g.undefined)

\* renderer.go:225-228: the value ScanHelmChart returns on its last path.
ScanResult(g) ==
    LET allErrors == g.errors \o g.undefined
    IN  Ret(Len(allErrors) = 0, allErrors,
            [isNil |-> FALSE, doc |-> Deep(g.vals.h, g.vals.values)], g.undefined)

\* renderer.go:225-233 and 377: the return statement runs the deferred
\* cleanupDependencies, whose os.RemoveAll(chartsDir) opens the directory and
\* reads the names it holds.
ScanCleanupOpen(i) ==
    /\ gor[i].pc = "return"
    /\ LET r == RemoveAllOpen(disk, gor[i].chartDir)
       IN  gor' = [gor EXCEPT ![i].pc = IF r.found THEN "rmall" ELSE "rmlock",
                              ![i].names = r.names]
    /\ UNCHANGED <<chartDirs, configValuesFiles, env, disk, mutex, results, invalidCharts, wg,
                   mainpc, spinner, returned,
                   pureVars, templateVars, cmdVars>>

\* renderer.go:377: os.RemoveAll(chartsDir) unlinks one of the entries, the
\* archive it has read in the directory (that it is no longer there is not an
\* error) or a path of a chart directory.
ScanCleanupEntry(i) ==
    /\ gor[i].pc = "rmall"
    /\ \/ /\ gor[i].names # {}
          /\ disk' = [disk EXCEPT !.archives = @ \ {gor[i].chartDir}]
          /\ gor' = [gor EXCEPT ![i].names = {}]
       \/ /\ \E path \in Removable(disk, Join(gor[i].chartDir, "charts")) :
                disk' = Unlink(disk, path)
          /\ gor' = gor
    /\ UNCHANGED <<chartDirs, configValuesFiles, env, mutex, results, invalidCharts, wg,
                   mainpc, spinner, returned,
                   pureVars, templateVars, cmdVars>>

\* renderer.go:377: os.RemoveAll(chartsDir) removes the directory itself.
ScanCleanupCharts(i) ==
    /\ gor[i].pc = "rmall"
    /\ gor[i].names = {}
    /\ Remaining(disk, Join(gor[i].chartDir, "charts")) = {}
    /\ disk' = RemoveAllRmdir(disk, gor[i].chartDir)
    /\ gor' = [gor EXCEPT ![i].pc = "rmlock"]
    /\ UNCHANGED <<chartDirs, configValuesFiles, env, mutex, results, invalidCharts, wg, mainpc,
                   spinner, returned,
                   pureVars, templateVars, cmdVars>>

\* renderer.go:379 and 233: os.Remove(chartLockFile), and ScanHelmChart
\* returns to processCharts.
ScanReturn(i) ==
    /\ gor[i].pc = "rmlock"
    /\ disk' = RemoveLock(disk, gor[i].chartDir)
    /\ gor' = [gor EXCEPT
          ![i].ran = Append(@, "cleanup"),
          ![i].ret = ScanResult(gor[i]),
          ![i].pc = "lock"]
    /\ UNCHANGED <<chartDirs, configValuesFiles, env, mutex, results, invalidCharts, wg, mainpc,
                   spinner, returned,
                   pureVars, templateVars, cmdVars>>

\* Mutant of MutexLock: the goroutine goes on without waiting for the mutex.
MutexLockNoWait(i) ==
    /\ gor[i].pc = "lock"
    /\ mutex' = i
    /\ gor' = [gor EXCEPT ![i].pc = "count"]
    /\ UNCHANGED <<chartDirs, configValuesFiles, env, disk, results, invalidCharts, wg, mainpc,
                   spinner, returned,
                   pureVars, templateVars, cmdVars>>

\* main.go:471.
MutexLock(i) ==
    /\ gor[i].pc = "lock"
    /\ mutex = 0
    /\ mutex' = i
    /\ gor' = [gor EXCEPT ![i].pc = "count"]
    /\ UNCHANGED <<chartDirs, configValuesFiles, env, disk, results, invalidCharts, wg, mainpc,
                   spinner, returned,
                   pureVars, templateVars, cmdVars>>

\* main.go:475-476: the test of success and, for a failed chart, the load of
\* invalidCharts that invalidCharts++ starts with.
CountInvalid(i) ==
    /\ gor[i].pc = "count"
    /\ gor' = [gor EXCEPT ![i].pc = "record",
                          ![i].read = IF ~gor[i].ret.success THEN invalidCharts ELSE @]
    /\ UNCHANGED <<chartDirs, configValuesFiles, env, disk, mutex, results, invalidCharts, wg,
                   mainpc, spinner, returned,
                   pureVars, templateVars, cmdVars>>

\* Mutant of RecordResult: a failed chart is counted and not stored.
RecordResultDropsFailed(i) ==
    /\ gor[i].pc = "record"
    /\ invalidCharts' = IF ~gor[i].ret.success THEN gor[i].read + 1 ELSE invalidCharts
    /\ results' = IF gor[i].ret.success
                  THEN Append(results, Result(gor[i].chartDir, gor[i].ret)) ELSE results
    /\ gor' = [gor EXCEPT ![i].pc = "unlock"]
    /\ UNCHANGED <<chartDirs, configValuesFiles, env, disk, mutex, wg, mainpc, spinner, returned,
                   pureVars, templateVars, cmdVars>>

\* main.go:476-486: the store of invalidCharts++ and the append.
RecordResult(i) ==
    /\ gor[i].pc = "record"
    /\ invalidCharts' = IF ~gor[i].ret.success THEN gor[i].read + 1 ELSE invalidCharts
    /\ results' = Append(results, Result(gor[i].chartDir, gor[i].ret))
    /\ gor' = [gor EXCEPT ![i].pc = "unlock"]
    /\ UNCHANGED <<chartDirs, configValuesFiles, env, disk, mutex, wg, mainpc, spinner, returned,
                   pureVars, templateVars, cmdVars>>

\* Mutant of MutexUnlock: the goroutine ends without releasing the mutex.
MutexUnlockForgotten(i) ==
    /\ gor[i].pc = "unlock"
    /\ mutex' = mutex
    /\ gor' = [gor EXCEPT ![i].pc = "wgdone"]
    /\ UNCHANGED <<chartDirs, configValuesFiles, env, disk, results, invalidCharts, wg, mainpc,
                   spinner, returned,
                   pureVars, templateVars, cmdVars>>

\* main.go:472: the deferred mutex.Unlock.
MutexUnlock(i) ==
    /\ gor[i].pc = "unlock"
    /\ mutex' = 0
    /\ gor' = [gor EXCEPT ![i].pc = "wgdone"]
    /\ UNCHANGED <<chartDirs, configValuesFiles, env, disk, results, invalidCharts, wg, mainpc,
                   spinner, returned,
                   pureVars, templateVars, cmdVars>>

\* main.go:462: the deferred wg.Done.
WgDone(i) ==
    /\ gor[i].pc = "wgdone"
    /\ wg' = wg - 1
    /\ gor' = [gor EXCEPT ![i].pc = "exit"]
    /\ UNCHANGED <<chartDirs, configValuesFiles, env, disk, mutex, results, invalidCharts, mainpc,
                   spinner, returned,
                   pureVars, templateVars, cmdVars>>

\* main.go:491-494, with the deferred s.Stop of line 456.
ProcessChartsReturn ==
    /\ mainpc = "wait"
    /\ wg = 0
    /\ returned' = [results |-> results, invalidCharts |-> invalidCharts]
    /\ spinner' = [spinner EXCEPT !.active = FALSE]
    /\ mainpc' = "returned"
    /\ UNCHANGED <<chartDirs, configValuesFiles, env, disk, gor, mutex, results, invalidCharts, wg,
                   pureVars, templateVars, cmdVars>>

(***************************************************************************)
(* SpecMerge: mergeMaps on every pair of bounded mappings                  *)
(***************************************************************************)
KeyA == <<"a">>

KeyB == <<"b">>

MergeKeySet == {KeyA, KeyB}

MergeLeaves == {Nil, Scalar(1), Scalar(2), SeqV(<<1, 2>>)}

MergeInner == MapsOver(MergeKeySet, {Scalar(1), Scalar(2), SeqV(<<1, 2>>)})

MergeDocs == MapsOver(MergeKeySet, MergeLeaves \cup {MapDoc(f) : f \in MergeInner})

NoDisk == [charts |-> {}, locks |-> {}, tmp |-> {}, subcharts |-> {}, gone |-> {}, archives |-> {}]

\* scanCmd.Run is not part of the specification.
CommandIdle ==
    /\ format = <<>>
    /\ marshalErr = FALSE
    /\ stdout = <<>>
    /\ exitStatus = -1
    /\ cmdpc = "idle"

ScanIdle ==
    /\ chartDirs = <<>>
    /\ configValuesFiles = <<>>
    /\ env = <<>>
    /\ disk = NoDisk
    /\ gor = <<>>
    /\ mutex = 0
    /\ results = <<>>
    /\ invalidCharts = 0
    /\ wg = 0
    /\ mainpc = "idle"
    /\ spinner = [active |-> FALSE, suffix |-> <<>>]
    /\ returned = <<>>
    /\ CommandIdle

\* loadConfig is not part of the specification.
ConfigIdle ==
    /\ flags = <<>>
    /\ args = <<>>
    /\ repoFile = <<>>
    /\ configFile = <<>>
    /\ config = <<>>
    /\ cfgpc = "idle"

\* templateCmd.Run is not part of the specification.
TemplateIdle == templateCmd = <<>>

ParseIdle ==
    /\ pfile = <<>>
    /\ pout = <<>>
    /\ ppc = "idle"

MergeIdle ==
    /\ mheap = <<>>
    /\ mtarget = 0
    /\ msource = 0
    /\ mpre = <<>>
    /\ mpc = "idle"

LoadIdle ==
    /\ lfs = <<>>
    /\ lchart = <<>>
    /\ lfiles = <<>>
    /\ lst = <<>>
    /\ lidx = 0
    /\ lpc = "idle"

ResolveIdle ==
    /\ rheap = <<>>
    /\ rvalues = 0
    /\ rrefs = <<>>
    /\ rout = <<>>
    /\ rpc = "idle"

MergeInit ==
    \E A \in MergeDocs, B \in MergeDocs :
        LET t == AllocMap(<<>>, A)
            s == AllocMap(t.h, B)
        IN  /\ LoadIdle
            /\ ResolveIdle
            /\ ScanIdle
            /\ ParseIdle
            /\ ConfigIdle
            /\ TemplateIdle
            /\ mheap = s.h
            /\ mtarget = t.id
            /\ msource = s.id
            /\ mpre = s.h
            /\ mpc = "call"

MergeMapsCall ==
    /\ mpc = "call"
    /\ mpre' = mheap
    /\ mheap' = mergeMaps(mheap, mtarget, msource)
    /\ mpc' = "done"
    /\ UNCHANGED <<mtarget, msource, loadVars, resolveVars, scanVars, templateVars, parseVars, configVars>>

MergeNext == MergeMapsCall

SpecMerge == MergeInit /\ [][MergeNext]_vars

\* R is what the contract of the merger allows for target T and source S: the
\* keys of T that S lacks keep their value, a key at which both hold a mapping
\* holds a mapping that is again such a merge, any other key of S holds S's value.
RECURSIVE IsMergeOf(_, _, _)
IsMergeOf(R, T, S) ==
    /\ DOMAIN R = (DOMAIN T) \cup (DOMAIN S)
    /\ \A key \in (DOMAIN T) \ (DOMAIN S) : R[key] = T[key]
    /\ \A key \in DOMAIN S :
          IF key \in DOMAIN T /\ IsMap(T[key]) /\ IsMap(S[key])
          THEN IsMap(R[key]) /\ IsMergeOf(R[key].v, T[key].v, S[key].v)
          ELSE R[key] = S[key]

\* C2: after mergeMaps(target, source) every key of target absent from source
\* keeps its value; a key at which target and source both held a mapping holds
\* their recursive merge; every other key of source holds exactly source's value
\* (scalars and sequences are replaced wholesale).
C2_MergeContract ==
    mpc = "done" =>
        IsMergeOf(Deep(mheap, mtarget), Deep(mpre, mtarget), Deep(mpre, msource))

\* C2 witness: a merge that recursed at key a (keeping the nested key of target
\* and adding the one of source) and kept key b of target, which source lacks.
C2_Witness ==
    /\ mpc = "done"
    /\ LET T == Deep(mpre, mtarget)
           S == Deep(mpre, msource)
           R == Deep(mheap, mtarget)
       IN  /\ KeyA \in DOMAIN T /\ KeyA \in DOMAIN S
           /\ IsMap(T[KeyA]) /\ IsMap(S[KeyA])
           /\ DOMAIN T[KeyA].v = {KeyA}
           /\ DOMAIN S[KeyA].v = {KeyB}
           /\ DOMAIN R[KeyA].v = {KeyA, KeyB}
           /\ KeyB \in DOMAIN T /\ KeyB \notin DOMAIN S
           /\ R[KeyB] = SeqV(<<1, 2>>)

(***************************************************************************)
(* SpecLoad: loadAndMergeValues, one step per file, on a bounded file      *)
(* system                                                                  *)
(***************************************************************************)
MaxFiles == 2

SeqsUpTo(S, n) == UNION { [1..len -> S] : len \in 0..n }

LoadChart == <<"c1">>

LoadPaths == {Join(LoadChart, "values.yaml"), <<"o1.yaml">>, <<"o2.yaml">>}

LoadInner == MapsOver({KeyA, KeyB}, {Scalar(1), Scalar(2)})

LoadDocs == MapsOver({KeyA}, {Scalar(1)} \cup {MapDoc(f) : f \in LoadInner})

LoadFileStates ==
    {File(st) : st \in {"missing", "staterr", "unreadable", "malformed", "null"}}
        \cup {DocFile(f) : f \in LoadDocs}

LoadInit ==
    /\ TemplateIdle
    /\ MergeIdle
    /\ ResolveIdle
    /\ ScanIdle
    /\ ParseIdle
    /\ ConfigIdle
    /\ lfs \in [LoadPaths -> LoadFileStates]
    /\ lchart = LoadChart
    /\ lfiles \in SeqsUpTo(LoadPaths, MaxFiles)
    /\ lst = LoadLocals0
    /\ lidx = 0
    /\ lpc = "start"

\* Lines 494-507.
LoadChartStep ==
    /\ lpc = "start"
    /\ lst' = LoadChartValues(lst, lfs, lchart)
    /\ lpc' = "loop"
    /\ UNCHANGED <<lfs, lchart, lfiles, lidx, mergeVars, resolveVars, scanVars, templateVars, parseVars, configVars>>

\* Lines 510-522, one iteration.
LoadFileStep ==
    /\ lpc = "loop"
    /\ lidx < Len(lfiles)
    /\ lst' = LoadAdditional(lst, lfs, lchart, lfiles[lidx + 1])
    /\ lidx' = lidx + 1
    /\ UNCHANGED <<lfs, lchart, lfiles, lpc, mergeVars, resolveVars, scanVars, templateVars, parseVars, configVars>>

\* Line 526.
LoadReturn ==
    /\ lpc = "loop"
    /\ lidx = Len(lfiles)
    /\ lpc' = "done"
    /\ UNCHANGED <<lfs, lchart, lfiles, lst, lidx, mergeVars, resolveVars, scanVars, templateVars, parseVars, configVars>>

LoadNext == LoadChartStep \/ LoadFileStep \/ LoadReturn

SpecLoad == LoadInit /\ [][LoadNext]_vars

Absent == [k |-> "absent", v |-> <<>>]

\* What document D holds at the key path p (a non-empty sequence of keys).
RECURSIVE At(_, _)
At(D, p) ==
    IF p[1] \notin DOMAIN D THEN Absent
    ELSE IF Len(p) = 1 THEN D[p[1]]
    ELSE IF IsMap(D[p[1]]) THEN At(D[p[1]].v, Tail(p))
    ELSE Absent

\* The key paths document D defines.
RECURSIVE PathsOf(_)
PathsOf(D) ==
    UNION { {<<key>>} \cup (IF IsMap(D[key])
                            THEN {<<key>> \o q : q \in PathsOf(D[key].v)}
                            ELSE {}) : key \in DOMAIN D }

\* The same value, or a mapping on both sides.
SameAt(x, y) == IF IsMap(x) THEN IsMap(y) ELSE x = y

\* The mappings of the files of the sequence order that hold one, in that order.
DocsOf(fs, order) ==
    LET ok == SelectSeq(order, LAMBDA f : fs[f].st = "doc")
    IN  [i \in 1..Len(ok) |-> fs[ok[i]].doc]

\* docs[i] is the last of docs to define the key path p.
LastDefiner(docs, i, p) ==
    /\ p \in PathsOf(docs[i])
    /\ \A j \in (i + 1)..Len(docs) : p \notin PathsOf(docs[j])

\* C3: mergeMaps leaves its source alone and shares no mapping between target
\* and source, so every mapping loaded from a file still has the content it was
\* loaded with after the later merges, and is no part of the merged mapping.
C3_SourcesNeverChanged ==
    \A i \in 1..Len(lst.loaded) :
        /\ Deep(lst.h, lst.loaded[i].id) = lst.loaded[i].doc
        /\ Reach(lst.h, lst.values) \cap Reach(lst.h, lst.loaded[i].id) = {}

\* C4 as stated: the chart's values.yaml, then every operator file in the order
\* given; at every key path the merged value is the one of the last file that
\* defines the path.
C4_LastFileWinsEverywhere ==
    lpc = "done" =>
        LET docs   == DocsOf(lfs, <<Join(lchart, "values.yaml")>> \o lfiles)
            merged == Deep(lst.h, lst.values)
        IN  \A i \in 1..Len(docs) : \A p \in PathsOf(docs[i]) :
                LastDefiner(docs, i, p) => SameAt(At(docs[i], p), At(merged, p))

\* The files loadAndMergeValues merges, in merge order: an entry of valuesFiles
\* naming the chart's own values.yaml is passed over.
MergedOrder ==
    <<Join(lchart, "values.yaml")>>
        \o SelectSeq(lfiles, LAMBDA f : f # Join(lchart, "values.yaml"))

\* A file after docs[i] holds a non-mapping value at a proper prefix of p.
CutLater(docs, i, p) ==
    \E j \in (i + 1)..Len(docs) : \E n \in 1..(Len(p) - 1) :
        LET x == At(docs[j], SubSeq(p, 1, n)) IN x # Absent /\ ~IsMap(x)

\* C4 amended: over the files that are merged (the chart's values.yaml, then the
\* operator files in the order given, without the entries naming the chart's
\* values.yaml and without the files holding no mapping), every non-mapping
\* value of the merged mapping is the one of the last file defining its key
\* path, and the last file defining a key path decides the merged value there
\* unless a later file holds a non-mapping value at a prefix of the path.
C4_LastMergedFileWins ==
    lpc = "done" =>
        LET docs   == DocsOf(lfs, MergedOrder)
            merged == Deep(lst.h, lst.values)
        IN  /\ \A p \in PathsOf(merged) :
                  ~IsMap(At(merged, p)) =>
                      \E i \in 1..Len(docs) :
                          LastDefiner(docs, i, p) /\ At(docs[i], p) = At(merged, p)
            /\ \A i \in 1..Len(docs) : \A p \in PathsOf(docs[i]) :
                  (LastDefiner(docs, i, p) /\ ~CutLater(docs, i, p))
                      => SameAt(At(docs[i], p), At(merged, p))

\* C4 witness: {a:{a:1}} in values.yaml followed by the operator file
\* {a:{a:2,b:1}} has been merged to {a:{a:2,b:1}} (the example of the claim,
\* with a for service and port, b for name).
C4_Witness ==
    /\ lpc = "done"
    /\ lfiles = << <<"o1.yaml">> >>
    /\ lfs[Join(lchart, "values.yaml")]
          = DocFile(KeyA :> MapDoc(KeyA :> Scalar(1)))
    /\ lfs[<<"o1.yaml">>]
          = DocFile(KeyA :> MapDoc(KeyA :> Scalar(2) @@ KeyB :> Scalar(1)))
    /\ Deep(lst.h, lst.values) = (KeyA :> MapDoc(KeyA :> Scalar(2) @@ KeyB :> Scalar(1)))

(***************************************************************************)
(* SpecResolve: one reference name against every bounded values mapping    *)
(***************************************************************************)
MaxNameLen == 3

NameTokens == {"a", "b", "."}

Names == SeqsUpTo(NameTokens, MaxNameLen)

ResolveKeySet == {<<>>, KeyA, KeyB}

ResolveInner == MapsOver({KeyA}, {Nil, Scalar(1)})

ResolveDocs ==
    MapsOver(ResolveKeySet, {Nil, Scalar(1)} \cup {MapDoc(f) : f \in ResolveInner})

RefTo(name) == ValueReference(name, <<"t.yaml">>, 1, <<"{{ .Values.">> \o name \o <<" }}">>)

ResolveInit ==
    /\ TemplateIdle
    /\ MergeIdle
    /\ LoadIdle
    /\ ScanIdle
    /\ ParseIdle
    /\ ConfigIdle
    /\ \E name \in Names, D \in ResolveDocs :
          LET r == AllocMap(<<>>, D)
          IN  /\ rheap = r.h
              /\ rvalues = r.id
              /\ rrefs = <<RefTo(name)>>
    /\ rout = <<>>
    /\ rpc = "call"

\* Lines 111-113 for the one reference.
ResolveCall ==
    /\ rpc = "call"
    /\ rout' = <<checkNestedValueExists(Split(rrefs[1].Name, "."), rheap, Ref(rvalues))>>
    /\ rpc' = "done"
    /\ UNCHANGED <<rheap, rvalues, rrefs, mergeVars, loadVars, scanVars, templateVars, parseVars, configVars>>

ResolveNext == ResolveCall

SpecResolve == ResolveInit /\ [][ResolveNext]_vars

\* The walk of the segments segs from object root on heap h: nodes[i] is the
\* mapping reached before segment i; it holds segment i as a key, and for every
\* segment but the last the value there is the mapping reached next.
Walks(h, root, segs) ==
    /\ Len(segs) > 0
    /\ \E nodes \in [1..Len(segs) -> 1..Len(h)] :
          /\ nodes[1] = root
          /\ \A i \in 1..Len(segs) : segs[i] \in DOMAIN h[nodes[i]]
          /\ \A i \in 1..(Len(segs) - 1) : h[nodes[i]][segs[i]] = Ref(nodes[i + 1])

\* The dot-separated segments of a name, stated without strings.Split: the
\* sequence of dot-free pieces whose concatenation with dots between is the name.
RECURSIVE JoinDots(_)
JoinDots(segs) ==
    IF Len(segs) = 1 THEN segs[1] ELSE segs[1] \o <<".">> \o JoinDots(Tail(segs))

IsSegmentsOf(segs, name) ==
    /\ Len(segs) > 0
    /\ \A i \in 1..Len(segs) : ~Contains(segs[i], ".")
    /\ JoinDots(segs) = name

\* C5: a reference is resolved exactly when the walk of its dot-separated
\* segments from the root finds at every step a mapping holding the next
\* segment as a key; the last segment only has to be a key (a nil value counts).
C5_ResolvedIffWalk ==
    rpc = "done" =>
        LET segs == Split(rrefs[1].Name, ".")
        IN  /\ IsSegmentsOf(segs, rrefs[1].Name)
            /\ rout[1] = Walks(rheap, rvalues, segs)

\* C5 witness: a.a resolved against {a:{a:nil}} (the leaf is a key holding
\* null), after the call.
C5_Witness ==
    /\ rpc = "done"
    /\ rrefs[1].Name = <<"a", ".", "a">>
    /\ Deep(rheap, rvalues) = (KeyA :> MapDoc(KeyA :> Nil))
    /\ rout = <<TRUE>>

(***************************************************************************)
(* SpecCheck: CheckValueReferences on bounded lists of references          *)
(***************************************************************************)
MaxRefs == 2

CheckNames == {<<"a">>, <<"a", ".", "a">>, <<"a", ".", "b">>, <<"b">>}

\* The key "a[0]", and the names a[0] and a[0].a.
KeyA0 == <<"a", "[", "0", "]">>

BracketNames == {KeyA0, KeyA0 \o <<".", "a">>}

CheckRefs ==
    { ValueReference(name, file, line, <<"{{ .Values.">> \o name \o <<" }}">>) :
        name \in CheckNames, file \in {<<"t.yaml">>, <<"u.yaml">>}, line \in {1, 12} }
    \cup { ValueReference(name, <<"t.yaml">>, 1, <<"{{ .Values.">> \o name \o <<" }}">>) :
        name \in BracketNames }

\* a is absent, null, a scalar, a mapping or the sequence [{a: 1}]; "a[0]" is
\* absent or the mapping {a: 1}.
CheckDocs ==
    { base @@ bracket :
        base \in MapsOver({KeyA}, {Nil, Scalar(1), SeqV(<<MapDoc(KeyA :> Scalar(1))>>)}
                                     \cup {MapDoc(f) : f \in MapsOver({KeyA, KeyB}, {Scalar(1)})}),
        bracket \in MapsOver({KeyA0}, {MapDoc(KeyA :> Scalar(1))}) }

CheckInit ==
    /\ TemplateIdle
    /\ MergeIdle
    /\ LoadIdle
    /\ ScanIdle
    /\ ParseIdle
    /\ ConfigIdle
    /\ \E D \in CheckDocs :
          LET r == AllocMap(<<>>, D)
          IN  rheap = r.h /\ rvalues = r.id
    /\ rrefs \in SeqsUpTo(CheckRefs, MaxRefs)
    /\ rout = <<>>
    /\ rpc = "call"

CheckCall ==
    /\ rpc = "call"
    /\ rout' = CheckValueReferences(rrefs, rheap, rvalues)
    /\ rpc' = "done"
    /\ UNCHANGED <<rheap, rvalues, rrefs, mergeVars, loadVars, scanVars, templateVars, parseVars, configVars>>

CheckNext == CheckCall

SpecCheck == CheckInit /\ [][CheckNext]_vars

\* C6: the diagnostics are, in the order of the references, one per reference
\* occurrence whose walk fails, each of the shape
\* "Undefined value: '<name>' referenced in <file> at line <N>", and nothing else.
C6_OneDiagnosticPerUnresolved ==
    rpc = "done" =>
        LET bad == {i \in 1..Len(rrefs) : ~Walks(rheap, rvalues, Split(rrefs[i].Name, "."))}
        IN  /\ Len(rout) = Cardinality(bad)
            /\ \A i \in bad :
                  rout[Cardinality({j \in bad : j <= i})]
                      = <<"Undefined value: '">> \o rrefs[i].Name
                          \o <<"' referenced in ">> \o rrefs[i].File
                          \o <<" at line ">>
                          \o (IF rrefs[i].Line = 1 THEN <<"1">> ELSE <<"1", "2">>)

\* C6 witness: the one reference a.b (image.tag) against {a:{a:1}}
\* (image:{repository:x}) has given exactly one diagnostic, naming a.b.
C6_Witness ==
    /\ rpc = "done"
    /\ Len(rrefs) = 1
    /\ rrefs[1].Name = <<"a", ".", "b">>
    /\ rrefs[1].File = <<"t.yaml">>
    /\ rrefs[1].Line = 12
    /\ Deep(rheap, rvalues) = (KeyA :> MapDoc(KeyA :> Scalar(1)))
    /\ rout = << <<"Undefined value: '", "a", ".", "b", "' referenced in ",
                   "t.yaml", " at line ", "1", "2">> >>

(***************************************************************************)
(* The charts, the tools and the files the scans run on                    *)
(***************************************************************************)
\* Runs of helm lint --strict: clean; one [ERROR] line; two [ERROR] lines; a
\* failure whose output holds only a [WARNING] line (--strict fails on
\* warnings); a failure with no output at all (helm cannot be started).
LintClean ==
    [exit |-> 0,
     stdout |-> <<"==> Linting", "\n", "[INFO]", " Chart.yaml: icon is recommended", "\n",
                  "1 chart(s) linted, 0 chart(s) failed", "\n">>,
     stderr |-> <<>>]

LintOneError ==
    [exit |-> 1,
     stdout |-> <<"==> Linting", "\n", "[INFO]", " Chart.yaml: icon is recommended", "\n",
                  "[ERROR]", " Chart.yaml: version is required", "\n">>,
     stderr |-> <<"Error: 1 chart(s) linted, 1 chart(s) failed", "\n">>]

LintTwoErrors ==
    [exit |-> 1,
     stdout |-> <<"==> Linting", "\n", "[ERROR]", " Chart.yaml: version is required", "\n",
                  "[ERROR]", " templates/: parse error", "\n">>,
     stderr |-> <<"Error: 1 chart(s) linted, 1 chart(s) failed", "\n">>]

LintWarningOnly ==
    [exit |-> 1,
     stdout |-> <<"==> Linting", "\n", "[WARNING]", " templates/: directory not found", "\n">>,
     stderr |-> <<"Error: 1 chart(s) linted, 1 chart(s) failed", "\n">>]

LintNoOutput == [exit |-> 1, stdout |-> <<>>, stderr |-> <<>>]

LintRuns == {LintClean, LintOneError, LintTwoErrors, LintWarningOnly, LintNoOutput}

TemplateFile(name, st, content) == [name |-> name, st |-> st, content |-> content]

\* "{{ .Values.a }}" on line 1; "x {{ .Values.a.b }}{{.Values.b}}" on line 2.
TextThreeRefs ==
    <<"{{", " ", ".Values.", "a", " ", "}}", "\n",
      "x", " ", "{{", " ", ".Values.", "a", ".", "b", " ", "}}", "{{", ".Values.", "b", "}}">>

\* "{{ if .Values.a }}" and "{{ .Values.b | quote }}": no placeholder.
TextNoPlaceholder ==
    <<"{{", " ", "if", " ", ".Values.", "a", " ", "}}", "\n",
      "{{", " ", ".Values.", "b", " ", "|", " ", "quote", " ", "}}">>

\* "{{ .Values.b }}".
TextOneRef == <<"{{", " ", ".Values.", "b", " ", "}}">>

TemplatesDir(entries) == [st |-> "dir", entries |-> entries]

TemplateDirs ==
    { [st |-> "missing", entries |-> <<>>],
      [st |-> "staterr", entries |-> <<>>],
      [st |-> "file", entries |-> <<>>],
      TemplatesDir(<<>>),
      TemplatesDir(<<TemplateFile(<<"d", ".yaml">>, "ok", TextThreeRefs)>>),
      TemplatesDir(<<TemplateFile(<<"c", ".yaml">>, "ok", TextNoPlaceholder),
                     TemplateFile(<<"n", ".txt">>, "ok", TextOneRef)>>),
      TemplatesDir(<<TemplateFile(<<"a", ".yaml">>, "walkerr", <<>>),
                     TemplateFile(<<"d", ".yaml">>, "ok", TextOneRef)>>),
      TemplatesDir(<<TemplateFile(<<"sub">>, "dir", <<>>),
                     TemplateFile(<<"sub", "/", "u", ".yaml">>, "unreadable", <<>>),
                     TemplateFile(<<"t", ".yaml">>, "ok", TextOneRef)>>) }

DepOutcomes == {"unreadable", "malformed", "nodeps", "mktempfail", "updatefail", "updated"}

ChartValuesFiles ==
    {File(st) : st \in {"missing", "staterr", "malformed", "null"}}
        \cup {DocFile(KeyA :> Scalar(1)),
              DocFile(KeyA :> MapDoc(KeyB :> Scalar(1)) @@ KeyB :> Nil)}

ChartEnv(dep, lint, templates) == [dep |-> dep, lint |-> lint, templates |-> templates]

ChartC1 == <<"c1">>

ChartC2 == <<"c2">>

FileO1 == <<"o1.yaml">>

FileO2 == <<"o2.yaml">>

\* The state in which processCharts is called.
ProcessChartsCalled ==
    /\ gor = <<>>
    /\ mutex = 0
    /\ results = <<>>
    /\ invalidCharts = 0
    /\ wg = 0
    /\ mainpc = "call"
    /\ spinner = [active |-> FALSE, suffix |-> <<>>]
    /\ returned = <<>>

(***************************************************************************)
(* SpecScan: processCharts on one chart directory, over the outcomes of    *)
(* every stage of ScanHelmChart                                            *)
(***************************************************************************)
\* The files named by configValuesFiles all exist.
AllExist(fs, files) == \A i \in 1..Len(files) : Stat(fs, files[i]) # "notexist"

\* What no step of the scan reads is held at one value: the files that
\* configValuesFiles does not name, and everything behind a stage that ends the
\* scan (an empty chart path, a failed dependency stage, a missing values file).
ScanInit ==
    /\ TemplateIdle
    /\ MergeIdle
    /\ LoadIdle
    /\ ResolveIdle
    /\ ParseIdle
    /\ ConfigIdle
    /\ CommandIdle
    /\ ProcessChartsCalled
    /\ chartDirs \in {<< <<>> >>, <<ChartC1>>}
    /\ configValuesFiles \in {<<>>, <<FileO1>>, <<FileO1, FileO2>>, <<FileO2, FileO1>>}
    /\ \E dep \in DepOutcomes, lint \in LintRuns, templates \in TemplateDirs,
          values \in ChartValuesFiles,
          o1 \in {File("missing"), File("malformed"), DocFile(KeyA :> MapDoc(KeyA :> Scalar(1)))},
          o2 \in {File("missing"), DocFile(KeyB :> Scalar(2))} :
          LET fs == Join(ChartC1, "values.yaml") :> values @@ FileO1 :> o1 @@ FileO2 :> o2
              named(f) == \E i \in 1..Len(configValuesFiles) : configValuesFiles[i] = f
              reached == /\ chartDirs = <<ChartC1>>
                         /\ dep \in {"nodeps", "updated"}
                         /\ AllExist(fs, configValuesFiles)
          IN  /\ named(FileO1) \/ o1 = File("missing")
              /\ named(FileO2) \/ o2 = File("missing")
              /\ chartDirs = <<ChartC1>> \/ (dep = "nodeps" /\ configValuesFiles = <<>>)
              /\ dep \in {"nodeps", "updated"} \/ configValuesFiles = <<>>
              /\ reached \/ (/\ lint = LintClean
                              /\ templates = TemplatesDir(<<>>)
                              /\ values = File("missing"))
              /\ env = [charts |-> (ChartC1 :> ChartEnv(dep, lint, templates)), fs |-> fs]
    /\ \E vendored \in BOOLEAN :
          disk = [charts |-> IF vendored THEN {ChartC1} ELSE {},
                  locks |-> IF vendored THEN {ChartC1} ELSE {},
                  tmp |-> {},
                  subcharts |-> {}, gone |-> {}, archives |-> {}]

PipelineNext ==
    \/ ProcessChartsStart
    \/ \E i \in DOMAIN gor : GoStart(i)
    \/ \E i \in DOMAIN gor : ScanEnter(i)
    \/ \E i \in DOMAIN gor : ScanDepUpdate(i)
    \/ \E i \in DOMAIN gor : ScanValuesFiles(i)
    \/ \E i \in DOMAIN gor : ScanLint(i)
    \/ \E i \in DOMAIN gor : ScanParseStat(i)
    \/ \E i \in DOMAIN gor : ScanWalkRoot(i)
    \/ \E i \in DOMAIN gor : ScanWalkDir(i)
    \/ \E i \in DOMAIN gor : ScanWalkEntry(i)
    \/ \E i \in DOMAIN gor : ScanWalkRead(i)
    \/ \E i \in DOMAIN gor : ScanParse(i)
    \/ \E i \in DOMAIN gor : ScanLoadStat(i)
    \/ \E i \in DOMAIN gor : ScanLoadChart(i)
    \/ \E i \in DOMAIN gor : ScanLoadFile(i)
    \/ \E i \in DOMAIN gor : ScanLoad(i)
    \/ \E i \in DOMAIN gor : ScanCheck(i)
    \/ \E i \in DOMAIN gor : ScanCleanupOpen(i)
    \/ \E i \in DOMAIN gor : ScanCleanupEntry(i)
    \/ \E i \in DOMAIN gor : ScanCleanupCharts(i)
    \/ \E i \in DOMAIN gor : ScanReturn(i)
    \/ \E i \in DOMAIN gor : MutexLock(i)
    \/ \E i \in DOMAIN gor : CountInvalid(i)
    \/ \E i \in DOMAIN gor : RecordResult(i)
    \/ \E i \in DOMAIN gor : MutexUnlock(i)
    \/ \E i \in DOMAIN gor : WgDone(i)
    \/ ProcessChartsReturn

SpecScan == ScanInit /\ [][PipelineNext]_vars

\* The elements of a sequence.
Range(s) == {s[k] : k \in DOMAIN s}

\* The stages of ScanHelmChart behind its two early returns.
LaterStages == {"lint", "parse", "load", "check"}

\* The stages a scan that reaches its last return has run, in order.
FullRun == <<"deps", "valcheck", "lint", "parse", "load", "check", "cleanup">>

\* What the dependency stage of chartPath does, and the values files that
\* configValuesFiles names and that do not exist.
DepOf(chartPath) == env.charts[chartPath].dep

DepFails(chartPath) == DepOf(chartPath) \in {"unreadable", "malformed", "mktempfail", "updatefail"}

MissingFiles == SelectSeq(configValuesFiles, LAMBDA f : Stat(env.fs, f) = "notexist")

\* The first token of the one diagnostic each failure of the dependency stage gives.
DepPrefix(dep) ==
    IF dep \in {"unreadable", "malformed"} THEN "Error reading Chart.yaml: "
    ELSE IF dep = "mktempfail" THEN "Error creating temp cache dir: "
    ELSE "Error updating dependencies: "

\* C1: every value ScanHelmChart returns, on each of its four return paths, and
\* every result processCharts stores or returns, has success true exactly when
\* its errors list is empty.
C1_SuccessIffNoErrors ==
    /\ \A i \in DOMAIN gor :
          gor[i].ret.set => (gor[i].ret.success <=> gor[i].ret.errors = <<>>)
    /\ \A k \in DOMAIN results : results[k].Success <=> results[k].Errors = <<>>
    /\ mainpc = "returned" =>
          \A k \in DOMAIN returned.results :
              returned.results[k].Success <=> returned.results[k].Errors = <<>>

\* A stored result of the full pipeline whose only diagnostics are undefined
\* values: lint, templates and loading gave none, and success is false.
C1_Witness ==
    /\ Len(results) = 1
    /\ gor[1].ran = FullRun
    /\ gor[1].errors = <<>>
    /\ gor[1].undefined # <<>>
    /\ results[1].Errors = gor[1].undefined
    /\ ~results[1].Success

\* The other return paths, each with its result stored.
C1_WitnessEmptyPath ==
    /\ Len(results) = 1
    /\ results[1].ChartPath = <<>>
    /\ ~results[1].Success

C1_WitnessSuccess ==
    /\ Len(results) = 1
    /\ gor[1].ran = FullRun
    /\ results[1].Success
    /\ results[1].Errors = <<>>

\* C7: when the dependency stage of a chart fails, or a values file named on
\* the command line does not exist, no later stage (lint, template parsing,
\* values loading, reference resolution) is ever run for the chart, and what
\* ScanHelmChart returns is success = false with that stage's diagnostics only:
\* the one diagnostic of the dependency stage, or one "Values file does not
\* exist" diagnostic per missing file, in the order of the list.
C7_EarlyFailureShortCircuits ==
    \A i \in DOMAIN gor :
        LET g == gor[i]
            c == g.chartDir
        IN  c # <<>> =>
            /\ DepFails(c) =>
                  /\ Range(g.ran) \cap (LaterStages \cup {"valcheck"}) = {}
                  /\ g.ret.set =>
                        /\ ~g.ret.success
                        /\ Len(g.ret.errors) = 1
                        /\ Head(g.ret.errors[1]) = DepPrefix(DepOf(c))
                        /\ g.ret.values.isNil
                        /\ g.ret.undefinedValues = <<>>
            /\ (~DepFails(c) /\ MissingFiles # <<>>) =>
                  /\ Range(g.ran) \cap LaterStages = {}
                  /\ g.ret.set =>
                        /\ ~g.ret.success
                        /\ g.ret.errors = [k \in 1..Len(MissingFiles) |->
                                              <<"Values file does not exist: ">> \o MissingFiles[k]]
                        /\ g.ret.values.isNil
                        /\ g.ret.undefinedValues = <<>>

\* helm dependency update fails and the scan has returned and is stored.
C7_Witness ==
    /\ Len(results) = 1
    /\ DepOf(ChartC1) = "updatefail"
    /\ gor[1].ran = <<"deps">>
    /\ ~results[1].Success
    /\ Len(results[1].Errors) = 1

\* The dependencies are updated, the second of two values files is missing,
\* and the scan has returned.
C7_WitnessMissingFile ==
    /\ Len(results) = 1
    /\ DepOf(ChartC1) = "updated"
    /\ configValuesFiles = <<FileO1, FileO2>>
    /\ MissingFiles = <<FileO2>>
    /\ gor[1].ran = <<"deps", "valcheck">>
    /\ ~results[1].Success

\* C8: a scan that gets as far as lint runs every later stage whatever lint,
\* template parsing and values loading report, and returns as errors the lint
\* diagnostics, then the template diagnostics, then the load diagnostics, then
\* the undefined-value diagnostics.
C8_ErrorsAccumulate ==
    \A i \in DOMAIN gor :
        LET g == gor[i]
            c == g.chartDir
        IN  (g.ret.set /\ "lint" \in Range(g.ran)) =>
            LET lint == lintChart(env.charts[c].lint)
                tpl  == parseTemplates(c, env.charts[c].templates)
                st   == loadAndMergeValues(env.fs, c, configValuesFiles)
                und  == CheckValueReferences(tpl.refs, st.h, st.values)
            IN  /\ g.ran = FullRun
                /\ g.ret.errors = lint \o tpl.errors \o st.errors \o und
                /\ g.ret.undefinedValues = und

\* One chart reports diagnostics of all four kinds together.
C8_Witness ==
    /\ Len(results) = 1
    /\ gor[1].ran = FullRun
    /\ lintChart(env.charts[ChartC1].lint) # <<>>
    /\ parseTemplates(ChartC1, env.charts[ChartC1].templates).errors # <<>>
    /\ loadAndMergeValues(env.fs, ChartC1, configValuesFiles).errors # <<>>
    /\ results[1].UndefinedValues # <<>>
    /\ Len(results[1].Errors) >= 4

\* C9: whenever helm lint ends with a non-zero exit for a chart, what
\* ScanHelmChart returns for the chart has success = false and a non-empty
\* errors list.
C9_LintFailureFailsChart ==
    \A i \in DOMAIN gor :
        LET g == gor[i]
        IN  (g.ret.set /\ "lint" \in Range(g.ran)
                /\ env.charts[g.chartDir].lint.exit # 0) =>
            /\ ~g.ret.success
            /\ g.ret.errors # <<>>

(***************************************************************************)
(* Spec: processCharts on up to NumCharts chart directories                *)
(***************************************************************************)
NumCharts == 2

\* A chart whose references are all defined, one with an undefined reference
\* and one whose Chart.yaml cannot be read.
ChartResolved == ChartEnv("nodeps", LintClean,
                          TemplatesDir(<<TemplateFile(<<"d", ".yaml">>, "ok", <<"{{", " ", ".Values.", "a", " ", "}}">>)>>))

ChartUndefined == ChartEnv("updated", LintClean,
                           TemplatesDir(<<TemplateFile(<<"d", ".yaml">>, "ok", TextOneRef)>>))

ChartUnreadable == ChartEnv("unreadable", LintClean, TemplatesDir(<<>>))

ConcChartEnvs == {ChartResolved, ChartUndefined, ChartUnreadable}

\* The chart directory c1/charts/sub, which FindHelmChartDirs discovers along
\* with c1 when it holds a Chart.yaml (finder.go:10-20).
ChartSub == Join(Join(ChartC1, "charts"), "sub")

Init ==
    /\ TemplateIdle
    /\ MergeIdle
    /\ LoadIdle
    /\ ResolveIdle
    /\ ParseIdle
    /\ ConfigIdle
    /\ CommandIdle
    /\ ProcessChartsCalled
    /\ chartDirs \in SeqsUpTo({ChartC1, ChartC2, ChartSub}, NumCharts)
    /\ configValuesFiles \in {<<>>, <<FileO1>>}
    /\ \E e1 \in ConcChartEnvs, e2 \in ConcChartEnvs :
          /\ ChartC1 \in Range(chartDirs) \/ e1 = ChartResolved
          /\ ChartC2 \in Range(chartDirs) \/ e2 = ChartResolved
          /\ env = [charts |-> (ChartC1 :> e1 @@ ChartC2 :> e2 @@ ChartSub :> ChartResolved),
                 fs |-> (Join(ChartC1, "values.yaml") :> DocFile(KeyA :> Scalar(1))
                         @@ Join(ChartC2, "values.yaml") :> DocFile(KeyA :> Scalar(1))
                         @@ Join(ChartSub, "values.yaml") :> DocFile(KeyA :> Scalar(1))
                         @@ FileO1 :> DocFile(KeyA :> Scalar(2)))]
    /\ disk = [NoDisk EXCEPT !.charts = {ChartC1}, !.subcharts = {ChartSub}]

Next == PipelineNext

Spec == Init /\ [][Next]_vars

\* How many entries of the sequence s are x.
Occurrences(x, s) == Cardinality({k \in DOMAIN s : s[k] = x})

\* C10: whatever the order in which the goroutines run and finish,
\* processCharts returns one result per entry of chartDirs: each chart
\* directory is the ChartPath of as many results as it has entries in the list.
C10_OneResultPerChart ==
    mainpc = "returned" =>
        /\ Len(returned.results) = Len(chartDirs)
        /\ \A c \in DOMAIN env.charts :
              Occurrences(c, [k \in DOMAIN returned.results |-> returned.results[k].ChartPath])
                  = Occurrences(c, chartDirs)

\* Two charts, the first with an undefined reference and the second resolved:
\* two results, the second chart's stored first, and one of them failed.
C10_Witness ==
    /\ mainpc = "returned"
    /\ chartDirs = <<ChartC1, ChartC2>>
    /\ env.charts[ChartC1] = ChartUndefined
    /\ env.charts[ChartC2] = ChartResolved
    /\ Len(returned.results) = 2
    /\ returned.results[1].ChartPath = ChartC2
    /\ returned.results[1].Success
    /\ returned.results[2].ChartPath = ChartC1
    /\ ~returned.results[2].Success
    /\ returned.results[2].UndefinedValues # <<>>
    /\ returned.invalidCharts = 1

\* C11: whatever the order in which the goroutines run, the invalidCharts that
\* processCharts returns is the number of returned results whose Success is
\* false: no increment is lost.
C11_CounterMatchesFailures ==
    mainpc = "returned" =>
        returned.invalidCharts =
            Cardinality({k \in DOMAIN returned.results : ~returned.results[k].Success})

\* Two failed charts, both past the scan before either takes the mutex, and
\* both counted.
C11_Witness ==
    /\ mainpc = "returned"
    /\ Len(returned.results) = 2
    /\ \A k \in 1..2 : ~returned.results[k].Success
    /\ returned.invalidCharts = 2

\* What ScanHelmChart returns for chartPath when nothing else touches the
\* disk: the four return paths over what the chart directory held when the
\* charts were discovered.
ScanAlone(chartPath) ==
    IF chartPath = <<>> THEN Ret(FALSE, << <<"Chart path is empty">> >>, NilValues, <<>>)
    ELSE LET e    == env.charts[chartPath]
             b    == handleDependenciesBegin(NoDisk, e.dep, chartPath, 1)
             u    == handleDependenciesUpdate(b.disk, e.dep, chartPath, 1)
             deps == IF b.done THEN b ELSE u
             miss == IF Len(configValuesFiles) > 0
                     THEN checkValuesFilesExistence(env.fs, configValuesFiles) ELSE <<>>
             tpl  == parseTemplates(chartPath, e.templates)
             st   == loadAndMergeValues(env.fs, chartPath, configValuesFiles)
             und  == CheckValueReferences(tpl.refs, st.h, st.values)
             all  == lintChart(e.lint) \o tpl.errors \o st.errors \o und
         IN  IF ~deps.ok THEN Ret(FALSE, deps.errors, NilValues, <<>>)
             ELSE IF Len(miss) > 0 THEN Ret(FALSE, miss, NilValues, <<>>)
             ELSE Ret(Len(all) = 0, all, [isNil |-> FALSE, doc |-> Deep(st.h, st.values)], und)

\* C12: in a concurrent run every chart's result is what scanning that chart
\* alone gives, whatever the other charts of the run are and do, a chart
\* directory below another chart's charts/ directory included.
C12_ResultsAsAlone ==
    mainpc = "returned" =>
        \A k \in DOMAIN returned.results :
            returned.results[k] =
                Result(returned.results[k].ChartPath, ScanAlone(returned.results[k].ChartPath))

\* C13: the temporary repository-cache directory that handleDependencies makes
\* exists only while helm dependency update runs: it is gone once
\* ScanHelmChart has returned, whether the update succeeded or failed, and
\* none is left when processCharts returns.
C13_TempDirRemoved ==
    /\ \A i \in DOMAIN gor :
          /\ i \in disk.tmp => gor[i].pc = "depupdate"
          /\ gor[i].ret.set => i \notin disk.tmp
    /\ mainpc = "returned" => disk.tmp = {}

\* helm dependency update has failed in its cache directory and the scan has
\* returned.
C13_Witness ==
    /\ Len(gor) = 1
    /\ env.charts[ChartC1].dep = "updatefail"
    /\ gor[1].ret.set
    /\ gor[1].ret.errors = << <<"Error updating dependencies: ", "exit status 1">> >>
    /\ disk.tmp = {}

\* The cache directory while helm dependency update runs.
C13_WitnessDuring ==
    /\ Len(gor) = 1
    /\ gor[1].pc = "depupdate"
    /\ disk.tmp = {1}

\* The update has succeeded and the whole scan has returned.
C13_WitnessUpdated ==
    /\ Len(gor) = 1
    /\ env.charts[ChartC1].dep = "updated"
    /\ gor[1].ran = FullRun
    /\ disk.tmp = {}

(***************************************************************************)
(* SpecParse: TemplateParser on every template text of up to MaxPieces     *)
(* pieces                                                                  *)
(***************************************************************************)
MaxPieces == 4

\* "{{ .Values.a }}", "{{.Values.a.b}}", "{{ .Values. }}", "{{ if .Values.a }}",
\* "{{ .Values.b | quote }}", and single tokens: a line break, the letter x,
\* the character #, which no name holds, and the three parts of a placeholder.
ParsePieces ==
    { <<"{{", " ", ".Values.", "a", " ", "}}">>,
      <<"{{", ".Values.", "a", ".", "b", "}}">>,
      <<"{{", " ", ".Values.", " ", "}}">>,
      <<"{{", " ", "if", " ", ".Values.", "a", " ", "}}">>,
      <<"{{", " ", ".Values.", "b", " ", "|", " ", "quote", " ", "}}">>,
      <<"\n">>, <<"x">>, <<"#">>, <<"{{">>, <<"}}">>, <<".Values.">> }

RECURSIVE Concat(_)
Concat(seqs) == IF seqs = <<>> THEN <<>> ELSE Head(seqs) \o Concat(Tail(seqs))

ParseTexts == {Concat(ps) : ps \in SeqsUpTo(ParsePieces, MaxPieces)}

ParsePath == <<"templates", "/", "d", ".yaml">>

ParseInit ==
    /\ TemplateIdle
    /\ MergeIdle
    /\ LoadIdle
    /\ ResolveIdle
    /\ ScanIdle
    /\ ConfigIdle
    /\ \/ \E text \in ParseTexts : pfile = TemplateFile(<<"d", ".yaml">>, "ok", text)
       \/ pfile = TemplateFile(<<"d", ".yaml">>, "unreadable", <<>>)
    /\ pout = <<>>
    /\ ppc = "call"

ParseCall ==
    /\ ppc = "call"
    /\ pout' = TemplateParser(ParsePath, pfile)
    /\ ppc' = "done"
    /\ UNCHANGED <<pfile, mergeVars, loadVars, resolveVars, scanVars, templateVars, configVars>>

ParseNext == ParseCall

SpecParse == ParseInit /\ [][ParseNext]_vars

\* The lines of the text, stated without strings.Split: cur is the line read
\* so far.
RECURSIVE LinesFrom(_, _)
LinesFrom(text, cur) ==
    IF text = <<>> THEN <<cur>>
    ELSE IF Head(text) = "\n" THEN <<cur>> \o LinesFrom(Tail(text), <<>>)
    ELSE LinesFrom(Tail(text), Append(cur, Head(text)))

LinesOf(text) == LinesFrom(text, <<>>)

\* line[i..m] is a placeholder with the name line[j+1..r-1]: "{{", spaces,
\* ".Values.", one or more name characters, spaces, "}}".
IsPlaceholder(line, i, j, r, m) ==
    /\ 1 <= i /\ i < j /\ j + 1 < r /\ r <= m /\ m <= Len(line)
    /\ line[i] = "{{"
    /\ \A x \in (i + 1)..(j - 1) : line[x] = " "
    /\ line[j] = ".Values."
    /\ \A x \in (j + 1)..(r - 1) : line[x] \in NameClass
    /\ \A x \in r..(m - 1) : line[x] = " "
    /\ line[m] = "}}"

\* line[i..m] is "{{", spaces, ".Values.", spaces, "}}": a placeholder whose
\* body is empty after trimming.
IsEmptyPlaceholder(line, i, j, m) ==
    /\ 1 <= i /\ i < j /\ j < m /\ m <= Len(line)
    /\ line[i] = "{{"
    /\ \A x \in (i + 1)..(j - 1) : line[x] = " "
    /\ line[j] = ".Values."
    /\ \A x \in (j + 1)..(m - 1) : line[x] = " "
    /\ line[m] = "}}"

\* The indices at which line holds the token tok.
IndicesOf(line, tok) == {x \in 1..Len(line) : line[x] = tok}

\* The placeholder occurrences of a line: <<i, j, r, m>>.
OccurrencesIn(line) ==
    { q \in IndicesOf(line, "{{") \X IndicesOf(line, ".Values.")
              \X (1..Len(line)) \X IndicesOf(line, "}}") :
        IsPlaceholder(line, q[1], q[2], q[3], q[4]) }

\* The placeholder occurrences of a text: <<line number, i, j, r, m>>.
Occurrences5(text) ==
    LET ls == LinesOf(text)
    IN  UNION { { <<l, q[1], q[2], q[3], q[4]>> : q \in OccurrencesIn(ls[l]) }
                : l \in 1..Len(ls) }

HasEmptyPlaceholder(text) ==
    LET ls == LinesOf(text)
    IN  \E l \in 1..Len(ls) :
            \E i \in IndicesOf(ls[l], "{{"), j \in IndicesOf(ls[l], ".Values."),
               m \in IndicesOf(ls[l], "}}") : IsEmptyPlaceholder(ls[l], i, j, m)

\* C15: a template file holding a placeholder whose body is empty after
\* trimming makes TemplateParser return an error and no reference at all.
C15_EmptyBodyFailsFile ==
    (ppc = "done" /\ pfile.st = "ok" /\ HasEmptyPlaceholder(pfile.content)) =>
        /\ pout.err # <<>>
        /\ pout.refs = <<>>

\* C16: for a readable template file whose text holds no placeholder of the
\* shape {{ .Values.<path> }} on any line, whatever other template constructs
\* mention .Values, TemplateParser returns no reference and no error.
C16_NoPlaceholderNoReference ==
    (ppc = "done" /\ pfile.st = "ok" /\ Occurrences5(pfile.content) = {}) =>
        pout = [err |-> <<>>, refs |-> <<>>]

\* "{{ if .Values.a }}" on one line and "{{ .Values.b | quote }}" on the next
\* have been parsed.
C16_Witness ==
    /\ ppc = "done"
    /\ pfile.content = <<"{{", " ", "if", " ", ".Values.", "a", " ", "}}", "\n",
                         "{{", " ", ".Values.", "b", " ", "|", " ", "quote", " ", "}}">>
    /\ pout.refs = <<>>
    /\ pout.err = <<>>

\* An occurrence comes before another in file order.
Before(x, y) == x[1] < y[1] \/ (x[1] = y[1] /\ x[2] <= y[2])

RECURSIVE InFileOrder(_)
InFileOrder(S) ==
    IF S = {} THEN <<>>
    ELSE LET first == CHOOSE x \in S : \A y \in S : Before(x, y)
         IN  <<first>> \o InFileOrder(S \ {first})

\* The reference of the occurrence o = <<line number, i, j, r, m>>.
ReferenceOf(text, o) ==
    LET line == LinesOf(text)[o[1]]
    IN  ValueReference(SubSeq(line, o[3] + 1, o[4] - 1), ParsePath, o[1],
                       SubSeq(line, o[2], o[5]))

\* C17: for a readable template file TemplateParser returns no error and the
\* references of the placeholder occurrences of the text, one per occurrence,
\* repeated names kept, in file order (by line, then left to right), each
\* with a non-empty name and the 1-based number of its line.
C17_OneReferencePerOccurrence ==
    (ppc = "done" /\ pfile.st = "ok") =>
        LET occ == InFileOrder(Occurrences5(pfile.content))
        IN  /\ pout.err = <<>>
            /\ pout.refs = [k \in 1..Len(occ) |-> ReferenceOf(pfile.content, occ[k])]
            /\ \A k \in 1..Len(pout.refs) : pout.refs[k].Name # <<>>

\* "{{ .Values.a }}" on line 1, "{{ .Values.a }}{{.Values.a.b}}" on line 2:
\* three references, the name a twice.
C17_Witness ==
    /\ ppc = "done"
    /\ pfile.content = <<"{{", " ", ".Values.", "a", " ", "}}", "\n",
                         "{{", " ", ".Values.", "a", " ", "}}",
                         "{{", ".Values.", "a", ".", "b", "}}">>
    /\ Len(pout.refs) = 3
    /\ pout.refs[1].Name = <<"a">> /\ pout.refs[1].Line = 1
    /\ pout.refs[2].Name = <<"a">> /\ pout.refs[2].Line = 2
    /\ pout.refs[3].Name = <<"a", ".", "b">> /\ pout.refs[3].Line = 2

\* The diagnostics about the chart's own values.yaml.
ChartValuesDiagnostics(errors) ==
    SelectSeq(errors, LAMBDA e : Head(e) \in {"Error loading values.yaml: ",
                                               "Error checking values.yaml: "})

\* C18: a scan of a chart without values.yaml returns no diagnostic about
\* values.yaml, and its values and undefined values are those of the merge of
\* the values files of the command line alone (the empty mapping when there
\* are none); a scan of a chart whose values.yaml does not unmarshal returns
\* an "Error loading values.yaml" diagnostic and success = false.
C18_AbsentChartValuesTolerated ==
    \A i \in DOMAIN gor :
        LET g  == gor[i]
            c  == g.chartDir
            cv == Join(c, "values.yaml")
        IN  (g.ret.set /\ g.ran = FullRun) =>
            /\ Stat(env.fs, cv) = "notexist" =>
                  LET st  == LoadLoop(LoadLocals0, env.fs, c, configValuesFiles, 1)
                      tpl == parseTemplates(c, env.charts[c].templates)
                  IN  /\ ChartValuesDiagnostics(g.ret.errors) = <<>>
                      /\ g.ret.values = [isNil |-> FALSE, doc |-> Deep(st.h, st.values)]
                      /\ configValuesFiles = <<>> => g.ret.values.doc = EmptyMap
                      /\ g.ret.undefinedValues = CheckValueReferences(tpl.refs, st.h, st.values)
            /\ (Stat(env.fs, cv) = "ok" /\ env.fs[cv].st = "malformed") =>
                  /\ Len(ChartValuesDiagnostics(g.ret.errors)) = 1
                  /\ Head(ChartValuesDiagnostics(g.ret.errors)[1]) = "Error loading values.yaml: "
                  /\ ~g.ret.success

\* No values.yaml, o1.yaml = {a: {a: 1}} on the command line, and a template
\* with .Values.a, .Values.a.b and .Values.b: a is resolved from o1.yaml, the
\* other two are reported.
C18_Witness ==
    /\ Len(gor) = 1
    /\ gor[1].ret.set
    /\ gor[1].ran = FullRun
    /\ Stat(env.fs, Join(ChartC1, "values.yaml")) = "notexist"
    /\ configValuesFiles = <<FileO1>>
    /\ gor[1].ret.values.doc = (KeyA :> MapDoc(KeyA :> Scalar(1)))
    /\ Len(gor[1].refs) = 3
    /\ Len(gor[1].ret.undefinedValues) = 2
    /\ ChartValuesDiagnostics(gor[1].ret.errors) = <<>>

\* values.yaml does not unmarshal, and nothing else is wrong with the chart.
C18_WitnessMalformed ==
    /\ Len(gor) = 1
    /\ gor[1].ret.set
    /\ gor[1].ran = FullRun
    /\ env.fs[Join(ChartC1, "values.yaml")].st = "malformed"
    /\ Len(gor[1].ret.errors) = 1
    /\ ~gor[1].ret.success

\* C20: a name with an index in brackets is split at the dots only and each
\* piece is looked up as a key: a[0] is resolved exactly when the mapping has
\* the key "a[0]", a[0].a exactly when the value at the key "a[0]" is a
\* mapping with the key "a"; what the key "a" holds, a sequence included,
\* plays no part.
C20_BracketsAreKeyText ==
    rpc = "done" =>
        \A k \in DOMAIN rrefs :
            LET root     == rheap[rvalues]
                resolved == UndefinedValueMessage(rrefs[k]) \notin Range(rout)
            IN  /\ rrefs[k].Name = KeyA0 => (resolved <=> KeyA0 \in DOMAIN root)
                /\ rrefs[k].Name = KeyA0 \o <<".", "a">> =>
                      (resolved <=> /\ KeyA0 \in DOMAIN root
                                    /\ IsMap(root[KeyA0])
                                    /\ KeyA \in DOMAIN rheap[root[KeyA0].v[1]])

\* a[0].a against {a: [{a: 1}]}: the element of the sequence is not looked at
\* and the reference is reported.
C20_Witness ==
    /\ rpc = "done"
    /\ Len(rrefs) = 1
    /\ rrefs[1].Name = <<"a", "[", "0", "]", ".", "a">>
    /\ Deep(rheap, rvalues) = (KeyA :> SeqV(<<MapDoc(KeyA :> Scalar(1))>>))
    /\ rout = << <<"Undefined value: '", "a", "[", "0", "]", ".", "a", "' referenced in ",
                   "t.yaml", " at line ", "1">> >>

\* a[0].a against {"a[0]": {a: 1}}: resolved.
C20_WitnessLiteralKey ==
    /\ rpc = "done"
    /\ Len(rrefs) = 1
    /\ rrefs[1].Name = <<"a", "[", "0", "]", ".", "a">>
    /\ Deep(rheap, rvalues) = (KeyA0 :> MapDoc(KeyA :> Scalar(1)))
    /\ rout = <<>>

\* C19: a reference whose name is empty is unresolved whatever the mapping.
C19_EmptyNameUnresolved ==
    (rpc = "done" /\ rrefs[1].Name = <<>>) => rout[1] = FALSE

(***************************************************************************)
(* SpecCommand: scanCmd.Run (main.go:81-148) from the call of              *)
(* processCharts to the end of the command                                 *)
(***************************************************************************)
SupportedFormats == {<<"pretty">>, <<"json">>, <<"yaml">>, <<"junit">>}

\* What a report shows: one entry per result, in the order of the results
\* (a table row, an element of the JSON or YAML list, a JUnit test case).
ReportOf(res) ==
    [k \in DOMAIN res |-> [ChartPath |-> res[k].ChartPath, Success |-> res[k].Success,
                           Errors |-> res[k].Errors]]

\* main.go:109: processCharts is called, config.Format being what the command
\* line or the configuration file gave.
CommandInit ==
    /\ TemplateIdle
    /\ MergeIdle
    /\ LoadIdle
    /\ ResolveIdle
    /\ ParseIdle
    /\ ConfigIdle
    /\ ProcessChartsCalled
    /\ chartDirs \in SeqsUpTo({ChartC1, ChartC2}, NumCharts)
    /\ configValuesFiles \in {<<>>, <<FileO1>>}
    /\ \E e1 \in {ChartResolved, ChartUndefined}, e2 \in {ChartResolved, ChartUndefined} :
          /\ ChartC1 \in Range(chartDirs) \/ e1 = ChartResolved
          /\ ChartC2 \in Range(chartDirs) \/ e2 = ChartResolved
          /\ env = [charts |-> (ChartC1 :> e1 @@ ChartC2 :> e2),
                 fs |-> (Join(ChartC1, "values.yaml") :> DocFile(KeyA :> Scalar(1))
                         @@ Join(ChartC2, "values.yaml") :> DocFile(KeyA :> Scalar(1))
                         @@ FileO1 :> DocFile(KeyA :> Scalar(2)))]
    /\ disk = NoDisk
    /\ format \in SupportedFormats \cup {<<"xml">>, <<>>}
    /\ marshalErr \in BOOLEAN
    /\ format # <<"json">> => marshalErr = FALSE
    /\ stdout = <<>>
    /\ exitStatus = -1
    /\ cmdpc = "scan"

\* main.go:113-137: the switch on config.Format and the test of err.
\* PrintResultsPretty and printJUnitTestReport print the report themselves;
\* for json and yaml the marshalled output is printed by the next step.
CommandFormat ==
    /\ cmdpc = "scan"
    /\ mainpc = "returned"
    /\ IF format \in {<<"pretty">>, <<"junit">>}
       THEN /\ stdout' = ReportOf(returned.results)
            /\ cmdpc' = "exit"
            /\ exitStatus' = exitStatus
       ELSE IF format \in {<<"json">>, <<"yaml">>} /\ ~marshalErr
       THEN /\ cmdpc' = "print"
            /\ UNCHANGED <<stdout, exitStatus>>
       ELSE /\ exitStatus' = 1
            /\ cmdpc' = "exited"
            /\ stdout' = stdout
    /\ UNCHANGED <<format, marshalErr, chartDirs, configValuesFiles, env, disk, gor, mutex,
                   results, invalidCharts, wg, mainpc, spinner, returned, pureVars, templateVars>>

\* main.go:139-142.
CommandPrint ==
    /\ cmdpc = "print"
    /\ stdout' = ReportOf(returned.results)
    /\ cmdpc' = "exit"
    /\ UNCHANGED <<format, marshalErr, exitStatus, chartDirs, configValuesFiles, env, disk,
                   gor, mutex, results, invalidCharts, wg, mainpc, spinner, returned,
                   pureVars, templateVars>>

\* Mutant of CommandExit: the command ends with status zero.
CommandExitZero ==
    /\ cmdpc = "exit"
    /\ exitStatus' = 0
    /\ cmdpc' = "exited"
    /\ UNCHANGED <<format, marshalErr, stdout, chartDirs, configValuesFiles, env, disk, gor,
                   mutex, results, invalidCharts, wg, mainpc, spinner, returned, pureVars, templateVars>>

\* main.go:144-148: os.Exit(1) when invalidCharts > 0, else the return of Run.
CommandExit ==
    /\ cmdpc = "exit"
    /\ exitStatus' = IF returned.invalidCharts > 0 THEN 1 ELSE 0
    /\ cmdpc' = "exited"
    /\ UNCHANGED <<format, marshalErr, stdout, chartDirs, configValuesFiles, env, disk, gor,
                   mutex, results, invalidCharts, wg, mainpc, spinner, returned, pureVars, templateVars>>

CommandNext ==
    \/ PipelineNext
    \/ CommandFormat
    \/ CommandPrint
    \/ CommandExit

SpecCommand == CommandInit /\ [][CommandNext]_vars

SomeChartFailed == \E k \in DOMAIN returned.results : ~returned.results[k].Success

\* C14 as stated: the command ends with a non-zero status exactly when some
\* chart has Success = false, and when it ends with a non-zero status the
\* report of every result has been printed.
C14_ExitStatusSignalsFailure ==
    cmdpc = "exited" =>
        /\ exitStatus # 0 <=> SomeChartFailed
        /\ SomeChartFailed => stdout = ReportOf(returned.results)

\* The report can be rendered: the format is one of the four the command
\* knows and marshalling the results does not fail.
ReportRenders == format \in SupportedFormats /\ ~marshalErr

\* C14: the command has an exit status only once it has ended, and it never
\* ends before processCharts has returned a result for every chart.  When the
\* report renders, the command ends after printing one entry per scanned
\* chart, with status 1 if some chart has Success = false and status 0 if none
\* has; when the format is unknown or marshalling fails it prints no report
\* and ends with status 1, whatever the charts are.
C14_ExitStatusAfterReport ==
    /\ exitStatus # -1 <=> cmdpc = "exited"
    /\ cmdpc = "exited" =>
          /\ mainpc = "returned"
          /\ Len(returned.results) = Len(chartDirs)
          /\ IF ReportRenders
             THEN /\ stdout = ReportOf(returned.results)
                  /\ exitStatus = IF SomeChartFailed THEN 1 ELSE 0
             ELSE /\ stdout = <<>>
                  /\ exitStatus = 1

\* Two charts, one failed: the JSON report of both has been printed and the
\* command has ended with status 1.
C14_Witness ==
    /\ cmdpc = "exited"
    /\ format = <<"json">>
    /\ Len(stdout) = 2
    /\ \E k \in 1..2 : ~stdout[k].Success
    /\ \E k \in 1..2 : stdout[k].Success
    /\ exitStatus = 1

\* Every chart succeeded and the command has ended with status 0.
C14_WitnessAllSucceed ==
    /\ cmdpc = "exited"
    /\ Len(stdout) = 2
    /\ \A k \in 1..2 : stdout[k].Success
    /\ exitStatus = 0

(***************************************************************************)
(* The undefined values among the errors of a result                       *)
(***************************************************************************)
\* errors ends with undefinedValues, behind the diagnostics others.
EndsWith(errors, undefinedValues, others) ==
    errors = others \o undefinedValues

\* C21: in every value ScanHelmChart returns and every stored result, the
\* undefined-value diagnostics are the last entries of errors, in the order of
\* undefinedValues, behind the lint, template and load diagnostics; on the
\* returns that cut the scan short undefinedValues is empty.
C21_UndefinedValuesCloseErrors ==
    /\ \A i \in DOMAIN gor :
          LET g == gor[i]
              c == g.chartDir
          IN  g.ret.set =>
                IF g.ran = FullRun
                THEN EndsWith(g.ret.errors, g.ret.undefinedValues,
                              lintChart(env.charts[c].lint)
                                  \o parseTemplates(c, env.charts[c].templates).errors
                                  \o loadAndMergeValues(env.fs, c, configValuesFiles).errors)
                ELSE g.ret.undefinedValues = <<>>
    /\ \A k \in DOMAIN results :
          LET n == Len(results[k].Errors) - Len(results[k].UndefinedValues)
          IN  /\ n >= 0
              /\ SubSeq(results[k].Errors, n + 1, Len(results[k].Errors))
                    = results[k].UndefinedValues

\* A stored result with three undefined values behind a lint diagnostic.
C21_Witness ==
    /\ Len(results) = 1
    /\ gor[1].ran = FullRun
    /\ Len(results[1].UndefinedValues) = 3
    /\ Len(results[1].Errors) > 3
    /\ Head(results[1].Errors) = <<"[ERROR]", " Chart.yaml: version is required">>

\* A stored result of a scan cut short by a missing values file.
C21_WitnessShortCircuit ==
    /\ Len(results) = 1
    /\ "valcheck" \in Range(gor[1].ran)
    /\ gor[1].ran # FullRun
    /\ results[1].Errors # <<>>
    /\ results[1].UndefinedValues = <<>>

(***************************************************************************)
(* mergeMaps in the two orders                                             *)
(***************************************************************************)
\* The key paths at which the documents A and B hold two different scalars.
Overlaps(A, B) ==
    {p \in PathsOf(A) \cap PathsOf(B) :
        /\ At(A, p).k = "scalar"
        /\ At(B, p).k = "scalar"
        /\ At(A, p) # At(B, p)}

\* C22: for mappings A and B that hold different scalars at the same key,
\* mergeMaps(A, B) leaves B's value at the key and mergeMaps(B, A) leaves A's,
\* so the two merges differ there.
C22_MergeNotCommutative ==
    mpc = "done" =>
        LET A  == Deep(mpre, mtarget)
            B  == Deep(mpre, msource)
            AB == Deep(mheap, mtarget)
            BA == Deep(mergeMaps(mpre, msource, mtarget), msource)
        IN  \A p \in Overlaps(A, B) :
                /\ At(AB, p) = At(B, p)
                /\ At(BA, p) = At(A, p)
                /\ At(AB, p) # At(BA, p)

\* A is {a: 1} and B is {a: 2}: the merge into A holds 2 at a, the merge into
\* B holds 1.
C22_Witness ==
    /\ mpc = "done"
    /\ Deep(mpre, mtarget) = (KeyA :> Scalar(1))
    /\ Deep(mpre, msource) = (KeyA :> Scalar(2))
    /\ Deep(mheap, mtarget) = (KeyA :> Scalar(2))
    /\ Deep(mergeMaps(mpre, msource, mtarget), msource) = (KeyA :> Scalar(1))

\* The same below a key at which both hold a mapping.
C22_WitnessNested ==
    /\ mpc = "done"
    /\ Overlaps(Deep(mpre, mtarget), Deep(mpre, msource)) = {<<KeyA, KeyB>>}

(***************************************************************************)
(* SpecConfig: loadConfig (main.go:381-430), called by scanCmd.Run         *)
(* (main.go:81-93) or on its own                                           *)
(* A models.Config is [ChartPath, ValuesFiles, Format, Environments],      *)
(* Environments a function from environment names to [ValuesFiles].  The   *)
(* configuration file is [st, doc]: st is "giterr" (git rev-parse fails,   *)
(* as it does outside a repository), "notree" (git answers false),         *)
(* "missing", "unreadable", "malformed" or "doc".                          *)
(***************************************************************************)
ZeroConfig ==
    [ChartPath |-> <<>>, ValuesFiles |-> <<>>, Format |-> <<>>, Environments |-> <<>>]

RepoRoot == <<"/repo">>

ConfigFilePath == Join(RepoRoot, "chartscan.yaml")

\* main.go:264-280: [err, path], path empty when there is no file to use.
loadConfigFileFromGitRepo(file) ==
    IF file.st = "giterr" THEN [err |-> TRUE, path |-> <<>>]
    ELSE IF file.st \in {"notree", "missing"} THEN [err |-> FALSE, path |-> <<>>]
    ELSE [err |-> FALSE, path |-> ConfigFilePath]

\* filepath.Dir of a clean path.
Dir(path) ==
    LET seps == {k \in DOMAIN path : path[k] = "/"}
    IN  IF seps = {} THEN <<".">>
        ELSE SubSeq(path, 1, (CHOOSE k \in seps : \A j \in seps : j <= k) - 1)

\* main.go:433-439, for an absolute baseDir: filepath.Join and filepath.Abs.
resolveRelativePath(baseDir, relativePath) ==
    IF relativePath = <<>> THEN baseDir
    ELSE IF Head(relativePath) = "/" THEN baseDir \o relativePath
    ELSE baseDir \o <<"/">> \o relativePath

NoConfig(err) == [isNil |-> TRUE, cfg |-> ZeroConfig, err |-> err]

\* main.go:381-430: [isNil, cfg, err] for the configuration file at path (the
\* empty path when there is none), err empty for a nil error.  The slice
\* config.ValuesFiles takes from an environment shares its array with the
\* environment's own, so the loop of lines 420-427 resolves both.
loadConfig(path, file, valuesFiles, formatFlag, arguments, environment) ==
    LET fromFile == path # <<>>
        c0 == IF fromFile
              THEN [file.doc EXCEPT !.ChartPath = resolveRelativePath(Dir(path), @)]
              ELSE ZeroConfig
        useEnv == environment # "" /\ environment \in DOMAIN c0.Environments
        c1 == IF useEnv
              THEN [c0 EXCEPT !.ValuesFiles = c0.Environments[environment].ValuesFiles]
              ELSE c0
        c2 == IF Len(valuesFiles) > 0 THEN [c1 EXCEPT !.ValuesFiles = valuesFiles] ELSE c1
        c3 == IF formatFlag # <<>> THEN [c2 EXCEPT !.Format = formatFlag] ELSE c2
        resolved == [i \in DOMAIN c3.ValuesFiles |->
                        resolveRelativePath(Dir(path), c3.ValuesFiles[i])]
        c4 == IF ~fromFile THEN c3
              ELSE IF useEnv /\ Len(valuesFiles) = 0
              THEN [c3 EXCEPT !.ValuesFiles = resolved,
                              !.Environments[environment].ValuesFiles = resolved]
              ELSE [c3 EXCEPT !.ValuesFiles = resolved]
    IN  IF fromFile /\ file.st # "doc" THEN NoConfig(<<"read: ", file.st>>)
        ELSE IF environment # "" /\ environment \notin DOMAIN c0.Environments
        THEN NoConfig(<<"environment ", environment, " not found in chartscan.yaml">>)
        ELSE [isNil |-> FALSE, cfg |-> c4, err |-> <<>>]

EnvTest == "test"

ConfigDocs ==
    [ChartPath : {<<>>, <<"charts">>},
     ValuesFiles : {<<>>, << <<"v.yaml">> >>},
     Format : {<<>>, <<"yaml">>},
     Environments : {<<>>, EnvTest :> [ValuesFiles |-> << <<"t.yaml">> >>]}]

ConfigFiles ==
    {[st |-> st, doc |-> ZeroConfig] : st \in {"giterr", "notree", "missing", "unreadable", "malformed"}}
        \cup {[st |-> "doc", doc |-> d] : d \in ConfigDocs}

ConfigFlags ==
    [configFile : {<<>>, <<"my.yaml">>},
     valuesFiles : {<<>>, <<FileO1>>, <<FileO1, FileO2>>},
     format : {<<>>, <<"pretty">>, <<"json">>},
     environment : {"", EnvTest}]

\* scanCmd.Run starts with at least one argument (cobra.MinimumNArgs(1)), or
\* loadConfig is called on its own with any arguments.
ConfigInit ==
    /\ TemplateIdle
    /\ MergeIdle
    /\ LoadIdle
    /\ ResolveIdle
    /\ ParseIdle
    /\ ScanIdle
    /\ flags \in ConfigFlags
    /\ repoFile \in ConfigFiles
    /\ config = <<>>
    /\ \/ /\ cfgpc = "run"
          /\ args \in {<<ChartC1>>, <<ChartC1, ChartC2>>}
          /\ configFile = <<>>
       \/ /\ cfgpc = "call"
          /\ args \in {<<>>, <<ChartC1>>, <<ChartC1, ChartC2>>}
          /\ flags.configFile = <<>>
          /\ repoFile.st \notin {"giterr", "notree"}
          /\ configFile \in {<<>>, ConfigFilePath}
          /\ configFile = <<>> => repoFile.st = "missing"

\* main.go:83-87: the configFile of scanCmd.Run is a new local, set from the
\* git work tree; the --config flag is not read.
RunFindConfigFile ==
    /\ cfgpc = "run"
    /\ LET found == loadConfigFileFromGitRepo(repoFile)
       IN  IF found.err
           THEN /\ cfgpc' = "exited"
                /\ config' = NoConfig(<<"Error checking Git repo">>)
                /\ configFile' = configFile
           ELSE /\ cfgpc' = "call"
                /\ configFile' = found.path
                /\ config' = config
    /\ UNCHANGED <<flags, args, repoFile, mergeVars, loadVars, resolveVars, parseVars, scanVars, templateVars>>

\* main.go:89-93 and 381-430.  config.ValuesFiles = valuesFiles (line 412)
\* shares the array of the flag's slice, so the loop of lines 422-427 writes
\* the resolved paths into the flag variable valuesFiles as well.
LoadConfigCall ==
    /\ cfgpc = "call"
    /\ config' = loadConfig(configFile, repoFile, flags.valuesFiles, flags.format, args,
                            flags.environment)
    /\ flags' = IF ~config'.isNil /\ configFile # <<>> /\ Len(flags.valuesFiles) > 0
                THEN [flags EXCEPT !.valuesFiles = config'.cfg.ValuesFiles]
                ELSE flags
    /\ cfgpc' = IF config'.err # <<>> THEN "exited" ELSE "loaded"
    /\ UNCHANGED <<args, repoFile, configFile, mergeVars, loadVars, resolveVars,
                   parseVars, scanVars, templateVars>>

ConfigNext == RunFindConfigFile \/ LoadConfigCall

SpecConfig == ConfigInit /\ [][ConfigNext]_vars

\* C23: when loadConfig has read a configuration file, the format and the
\* values files the file sets are the ones of the configuration the scan
\* uses, whatever the --output-format and --values flags say.
C23_ConfigFileOverridesFlags ==
    (cfgpc = "loaded" /\ configFile # <<>> /\ flags.environment = "") =>
        /\ repoFile.doc.Format # <<>> => config.cfg.Format = repoFile.doc.Format
        /\ repoFile.doc.ValuesFiles # <<>> =>
              config.cfg.ValuesFiles =
                  [i \in DOMAIN repoFile.doc.ValuesFiles |->
                      resolveRelativePath(Dir(configFile), repoFile.doc.ValuesFiles[i])]

\* C24: with no configuration file, the configuration loadConfig returns has
\* the first positional argument as ChartPath, "./charts" when there is none,
\* and the format flag as Format, "pretty" when it is empty.
C24_ConfigFromArguments ==
    (cfgpc = "loaded" /\ configFile = <<>>) =>
        /\ config.cfg.ChartPath = IF args # <<>> THEN args[1] ELSE <<"./charts">>
        /\ config.cfg.Format = IF flags.format # <<>> THEN flags.format ELSE <<"pretty">>

(***************************************************************************)
(* The mutex of processCharts                                              *)
(***************************************************************************)
\* Where a goroutine is between the call of ScanHelmChart and its return, and
\* where it is between mutex.Lock and the deferred mutex.Unlock.
InScan == {"scan", "depupdate", "valcheck", "lint", "parse", "walkroot", "walkdir",
           "walkentry", "walkread", "parsed", "load", "loadchart", "loadfile", "check",
           "return", "rmall", "rmlock"}

InCritical == {"count", "record", "unlock"}

\* The next step of ScanHelmChart in goroutine i.
ScanStep(i) ==
    \/ ScanEnter(i)
    \/ ScanDepUpdate(i)
    \/ ScanValuesFiles(i)
    \/ ScanLint(i)
    \/ ScanParseStat(i)
    \/ ScanWalkRoot(i)
    \/ ScanWalkDir(i)
    \/ ScanWalkEntry(i)
    \/ ScanWalkRead(i)
    \/ ScanParse(i)
    \/ ScanLoadStat(i)
    \/ ScanLoadChart(i)
    \/ ScanLoadFile(i)
    \/ ScanLoad(i)
    \/ ScanCheck(i)
    \/ ScanCleanupOpen(i)
    \/ ScanCleanupEntry(i)
    \/ ScanCleanupCharts(i)
    \/ ScanReturn(i)

\* C25: the mutex of processCharts is held by a goroutine exactly from its
\* mutex.Lock to its mutex.Unlock, around the increment and the append; no
\* goroutine holds it while its ScanHelmChart runs, and a goroutine inside
\* ScanHelmChart can take its next step while another goroutine holds the mutex.
C25_MutexOnlyAroundRecord ==
    \A i \in DOMAIN gor :
        /\ mutex = i <=> gor[i].pc \in InCritical
        /\ gor[i].pc \in InScan => mutex # i
        /\ (gor[i].pc \in InScan /\ mutex # 0) => ENABLED ScanStep(i)

\* One goroutine holds the mutex, about to append, while the other is inside
\* ScanHelmChart, which then goes on to its next stage.
C25_Witness ==
    /\ Len(gor) = 2
    /\ mutex = 1
    /\ gor[1].pc = "record"
    /\ gor[2].pc = "parse"
    /\ gor[2].ran = <<"deps", "valcheck", "lint">>

\* The steps of goroutine i that assign a variable the goroutines share:
\* s.Suffix (main.go:465), invalidCharts and results (main.go:476-486).
SharedWrite(i) == GoStart(i) \/ RecordResult(i)

\* The goroutines that have assigned s.Suffix.
SuffixWriters == {i \in DOMAIN gor : gor[i].pc # "start"}

\* C26: results and invalidCharts are the only variables more than one
\* goroutine writes, and every step of a goroutine that writes a variable
\* shared between the goroutines is taken while that goroutine holds the mutex.
C26_SharedWritesUnderMutex ==
    [][/\ \A i \in DOMAIN gor : SharedWrite(i) => mutex = i
       /\ Cardinality(SuffixWriters) <= 1]_vars

(***************************************************************************)
(* The template command (main.go:158-198) and TemplateHelmChart            *)
(* (renderer.go:239-328)                                                   *)
(* templateCmd holds the command's arguments and locals: chartPaths (the   *)
(* args), k (the index of the loop), outputFile, cwd (what os.Getwd        *)
(* answers), helm (what helm template does for each argument), the         *)
(* releaseName and clean chartPath of the call under way, what helm        *)
(* template printed, and what the command has written to standard output,  *)
(* to standard error and to the output file.                               *)
(***************************************************************************)
\* strings.TrimSpace: the white space at both ends is dropped.
RECURSIVE TrimSpace(_)
TrimSpace(s) ==
    IF s # <<>> /\ Head(s) \in {" ", "\n"} THEN TrimSpace(Tail(s))
    ELSE IF s # <<>> /\ s[Len(s)] \in {" ", "\n"} THEN TrimSpace(SubSeq(s, 1, Len(s) - 1))
    ELSE s

\* The elements filepath.Clean keeps: an empty element and "." are dropped, ".."
\* goes with the element before it, stays when the path is relative and
\* nothing stands before it, and is dropped at the root.
RECURSIVE CleanElems(_, _, _)
CleanElems(elems, out, rooted) ==
    IF elems = <<>> THEN out
    ELSE LET e    == Head(elems)
             rest == Tail(elems)
             IsDotDot(elem) == elem \in {<<"..">>, <<".", ".">>}
         IN  IF e = <<>> \/ e = <<".">> THEN CleanElems(rest, out, rooted)
             ELSE IF ~IsDotDot(e) THEN CleanElems(rest, Append(out, e), rooted)
             ELSE IF out # <<>> /\ ~IsDotDot(out[Len(out)])
             THEN CleanElems(rest, SubSeq(out, 1, Len(out) - 1), rooted)
             ELSE IF rooted THEN CleanElems(rest, out, rooted)
             ELSE CleanElems(rest, Append(out, e), rooted)

RECURSIVE JoinSlashes(_)
JoinSlashes(elems) ==
    IF elems = <<>> THEN <<>>
    ELSE IF Len(elems) = 1 THEN elems[1]
    ELSE elems[1] \o <<"/">> \o JoinSlashes(Tail(elems))

\* filepath.Clean.
Clean(path) ==
    LET rooted == path # <<>> /\ path[1] = "/"
        elems  == CleanElems(Split(path, "/"), <<>>, rooted)
    IN  IF rooted THEN <<"/">> \o JoinSlashes(elems)
        ELSE IF elems = <<>> THEN <<".">>
        ELSE JoinSlashes(elems)

\* The file part of filepath.Split: what follows the last separator.
SplitFile(path) ==
    LET parts == Split(path, "/")
    IN  parts[Len(parts)]

\* The tokens that hold lower-case letters and digits only.
LowerAlnum == {"a", "b", "x", "0", "c1", "c2", "sub", "charts", "work"}

\* [a-z0-9]([-a-z0-9]*[a-z0-9])?
IsReleaseLabel(label) ==
    /\ label # <<>>
    /\ label[1] \in LowerAlnum
    /\ label[Len(label)] \in LowerAlnum
    /\ \A i \in DOMAIN label : label[i] \in LowerAlnum \cup {"-"}

\* renderer.go:323-328: labels of the above, a single "." between two of them.
isValidReleaseName(name) ==
    LET labels == Split(name, ".")
    IN  \A i \in DOMAIN labels : IsReleaseLabel(labels[i])

\* The %s of a slice of strings.
FormatSlice(strs) == <<"[">> \o JoinSpaces(strs) \o <<"]">>

\* renderer.go:241-267: [failed, err, chartPath, releaseName].
TemplateRelease(chartPath, cwd) ==
    IF chartPath = <<>>
    THEN [failed |-> TRUE, err |-> <<"chart path is empty">>,
          chartPath |-> <<>>, releaseName |-> <<>>]
    ELSE LET clean == Clean(chartPath)
             file  == SplitFile(clean)
         IN  IF file = <<".">> /\ cwd.err
             THEN [failed |-> TRUE,
                   err |-> <<"error getting current directory: ", "getwd: no such file or directory">>,
                   chartPath |-> clean, releaseName |-> <<>>]
             ELSE LET releaseName ==
                          TrimSpace(IF file = <<".">> THEN SplitFile(cwd.dir) ELSE file)
                  IN  IF ~isValidReleaseName(releaseName)
                      THEN [failed |-> TRUE,
                            err |-> <<"invalid release name: ">> \o releaseName,
                            chartPath |-> clean, releaseName |-> releaseName]
                      ELSE [failed |-> FALSE, err |-> <<>>,
                            chartPath |-> clean, releaseName |-> releaseName]

\* main.go:188-192: the line on standard error, s.Stop() and os.Exit(1).  No
\* deferred call of the command runs.
TemplateExit(t, err) ==
    [t EXCEPT !.stderr = Append(@, <<"Error rendering chart ">> \o t.chartPaths[t.k]
                                       \o <<": ">> \o err \o <<"\n">>),
              !.exit = 1,
              !.pc = "exited"]

\* What helm template prints for the chart.
Manifest(releaseName, chartPath, valuesFiles) ==
    <<"# manifests of ">> \o chartPath \o <<" released as ">> \o releaseName
        \o <<" with values ">> \o FormatSlice(valuesFiles)

\* main.go:176-181.
TemplateStart ==
    /\ templateCmd.pc = "run"
    /\ spinner' = [spinner EXCEPT !.active = TRUE]
    /\ templateCmd' = [templateCmd EXCEPT !.pc = "chart", !.k = 1]
    /\ UNCHANGED <<chartDirs, configValuesFiles, env, disk, gor, mutex, results, invalidCharts,
                   wg, mainpc, returned, pureVars, cmdVars>>

\* main.go:183-187 and renderer.go:241-273, up to os.MkdirTemp in
\* handleDependencies.
TemplateEnter ==
    /\ templateCmd.pc = "chart"
    /\ LET n == TemplateRelease(templateCmd.chartPaths[templateCmd.k], templateCmd.cwd)
           suffix == <<" Templating: ">> \o FormatSlice(templateCmd.chartPaths)
       IN  IF n.failed
           THEN /\ templateCmd' = TemplateExit(templateCmd, n.err)
                /\ spinner' = [active |-> FALSE, suffix |-> suffix]
                /\ disk' = disk
           ELSE LET r == handleDependenciesBegin(disk, ChartOnDisk(disk, n.chartPath).dep,
                                                 n.chartPath, templateCmd.k)
                    t == [templateCmd EXCEPT !.chartPath = n.chartPath, !.releaseName = n.releaseName]
                IN  /\ disk' = r.disk
                    /\ IF r.done /\ ~r.ok
                       THEN /\ templateCmd' = TemplateExit(t, <<"error building dependencies: ">>
                                                                  \o FormatSlice(r.errors))
                            /\ spinner' = [active |-> FALSE,
                                           suffix |-> suffix]
                       ELSE /\ templateCmd' = [t EXCEPT !.pc = IF r.done THEN "helm" ELSE "depupdate"]
                            /\ spinner' = [spinner EXCEPT
                                               !.suffix = suffix]
    /\ UNCHANGED <<chartDirs, configValuesFiles, env, gor, mutex, results, invalidCharts,
                   wg, mainpc, returned, pureVars, cmdVars>>

\* renderer.go:350-360 and 270-273.
TemplateDepUpdate ==
    /\ templateCmd.pc = "depupdate"
    /\ LET r == handleDependenciesUpdate(disk, ChartOnDisk(disk, templateCmd.chartPath).dep,
                                         templateCmd.chartPath, templateCmd.k)
       IN  /\ disk' = r.disk
           /\ IF r.ok
              THEN /\ templateCmd' = [templateCmd EXCEPT !.pc = "helm"]
                   /\ spinner' = spinner
              ELSE /\ templateCmd' = TemplateExit(templateCmd, <<"error building dependencies: ">>
                                                                 \o FormatSlice(r.errors))
                   /\ spinner' = [spinner EXCEPT !.active = FALSE]
    /\ UNCHANGED <<chartDirs, configValuesFiles, env, gor, mutex, results, invalidCharts,
                   wg, mainpc, returned, pureVars, cmdVars>>

\* renderer.go:276-293: helm template RELEASE CHART --values FILE...  It fails
\* when a values file is missing.
TemplateHelm ==
    /\ templateCmd.pc = "helm"
    /\ IF \/ templateCmd.helm[templateCmd.k] = "fail"
          \/ \E i \in DOMAIN configValuesFiles :
                 Stat(FsOnDisk(disk), configValuesFiles[i]) = "notexist"
       THEN /\ templateCmd' = TemplateExit(templateCmd, <<"error running helm template: ", "exit status 1",
                                          "\n", "stderr: ", "Error: helm template failed">>)
            /\ spinner' = [spinner EXCEPT !.active = FALSE]
       ELSE /\ templateCmd' = [templateCmd EXCEPT
                  !.pc = "output",
                  !.templateStdout = Manifest(templateCmd.releaseName, templateCmd.chartPath, configValuesFiles)]
            /\ spinner' = spinner
    /\ UNCHANGED <<chartDirs, configValuesFiles, env, disk, gor, mutex, results, invalidCharts,
                   wg, mainpc, returned, pureVars, cmdVars>>

\* renderer.go:296-314: fmt.Println, or os.OpenFile and the two file.Write.  A
\* failed write of the manifest may have written part of it; when the write of
\* the separator fails the file holds the whole manifest.
TemplateOutput ==
    /\ templateCmd.pc = "output"
    /\ LET t == templateCmd
           failed(file, prefix, op, errno) ==
               TemplateExit([t EXCEPT !.file = file],
                            <<prefix>> \o t.outputFile \o <<": ", op>> \o t.outputFile
                                \o <<errno>>)
       IN  IF t.outputFile = <<>>
           THEN /\ templateCmd' = [t EXCEPT !.stdout = @ \o t.templateStdout \o <<"\n">>,
                                            !.pc = "cleanup"]
                /\ spinner' = spinner
           ELSE \E st \in {"ok", "openfail", "writefail", "sepfail"} :
                  IF st = "ok"
                  THEN /\ templateCmd' = [t EXCEPT !.file = @ \o t.templateStdout \o <<"\n">>,
                                                   !.pc = "cleanup"]
                       /\ spinner' = spinner
                  ELSE /\ spinner' = [spinner EXCEPT !.active = FALSE]
                       /\ IF st = "openfail"
                          THEN templateCmd' = failed(t.file, "error opening output file ",
                                                     "open ", ": permission denied")
                          ELSE IF st = "writefail"
                          THEN \E written \in {<<>>, <<"part of the manifest">>} :
                                  templateCmd' = failed(t.file \o written,
                                                     "error writing to output file ",
                                                     "write ", ": no space left on device")
                          ELSE templateCmd' = failed(t.file \o t.templateStdout,
                                                     "error writing separator to output file ",
                                                     "write ", ": no space left on device")
    /\ UNCHANGED <<chartDirs, configValuesFiles, env, disk, gor, mutex, results, invalidCharts,
                   wg, mainpc, returned, pureVars, cmdVars>>

\* renderer.go:317-319: the deferred cleanupDependencies runs as
\* TemplateHelmChart returns nil; main.go:183 goes to the next argument.
TemplateCleanup ==
    /\ templateCmd.pc = "cleanup"
    /\ disk' = cleanupDependencies(disk, templateCmd.chartPath)
    /\ templateCmd' = [templateCmd EXCEPT !.k = @ + 1,
                          !.pc = IF templateCmd.k < Len(templateCmd.chartPaths) THEN "chart" ELSE "stop"]
    /\ UNCHANGED <<chartDirs, configValuesFiles, env, gor, mutex, results, invalidCharts,
                   wg, mainpc, spinner, returned, pureVars, cmdVars>>

\* main.go:195-197: s.Stop(), and Run returns.
TemplateStop ==
    /\ templateCmd.pc = "stop"
    /\ spinner' = [spinner EXCEPT !.active = FALSE]
    /\ templateCmd' = [templateCmd EXCEPT !.exit = 0, !.pc = "exited"]
    /\ UNCHANGED <<chartDirs, configValuesFiles, env, disk, gor, mutex, results, invalidCharts,
                   wg, mainpc, returned, pureVars, cmdVars>>

\* The arguments of the command: chart directories, one of them below the
\* charts/ directory of another, a path that is not clean, the current
\* directory, the empty path, and names helm does not take as release names.
TemplateArgs == {ChartC1, ChartSub, <<"c1", "/">>, <<".">>, <<>>, <<"My_Chart">>, <<"c1", "-">>}

ChartDot == <<".">>

WorkingDirs ==
    {[err |-> FALSE, dir |-> <<"/", "work", "/", "c1">>],
     [err |-> FALSE, dir |-> <<"/", "work", "/", "My_Chart">>],
     [err |-> TRUE, dir |-> <<>>]}

\* The state in which the loop of templateCmd.Run starts: loadConfig has
\* returned the configuration.  What the run does not read is held at one
\* value.
TemplateInit ==
    /\ MergeIdle
    /\ LoadIdle
    /\ ResolveIdle
    /\ ParseIdle
    /\ ConfigIdle
    /\ CommandIdle
    /\ chartDirs = <<>>
    /\ gor = <<>>
    /\ mutex = 0
    /\ results = <<>>
    /\ invalidCharts = 0
    /\ wg = 0
    /\ mainpc = "idle"
    /\ spinner = [active |-> FALSE, suffix |-> <<>>]
    /\ returned = <<>>
    /\ configValuesFiles \in {<<>>, <<FileO1>>}
    /\ \E chartPaths \in SeqsUpTo(TemplateArgs, NumCharts) \ {<<>>},
          dep \in DepOutcomes, o1 \in {File("missing"), DocFile(KeyA :> Scalar(1))},
          outputFile \in {<<>>, <<"out.yaml">>},
          cwd \in WorkingDirs :
          \E helm \in [DOMAIN chartPaths -> {"ok", "fail"}] :
          LET named(c) == \E i \in DOMAIN chartPaths : Clean(chartPaths[i]) = c
          IN  /\ named(ChartC1) \/ dep = "nodeps"
              /\ named(ChartDot) \/ cwd = [err |-> TRUE, dir |-> <<>>]
              /\ configValuesFiles # <<>> \/ o1 = File("missing")
              /\ env = [charts |-> (ChartC1 :> ChartEnv(dep, LintClean, TemplatesDir(<<>>))
                                    @@ ChartSub :> ChartResolved
                                    @@ ChartDot :> ChartUndefined),
                        fs |-> (Join(ChartC1, "values.yaml") :> DocFile(KeyA :> Scalar(1))
                                @@ Join(ChartSub, "values.yaml") :> DocFile(KeyA :> Scalar(1))
                                @@ FileO1 :> o1)]
              /\ templateCmd = [pc |-> "run", chartPaths |-> chartPaths, k |-> 0,
                        outputFile |-> outputFile, cwd |-> cwd,
                        helm |-> helm,
                        chartPath |-> <<>>, releaseName |-> <<>>, templateStdout |-> <<>>,
                        stdout |-> <<>>, stderr |-> <<>>, file |-> <<>>, exit |-> -1]
    /\ disk = [NoDisk EXCEPT !.charts = {ChartC1}, !.subcharts = {ChartSub}]

TemplateNext ==
    \/ TemplateStart
    \/ TemplateEnter
    \/ TemplateDepUpdate
    \/ TemplateHelm
    \/ TemplateOutput
    \/ TemplateCleanup
    \/ TemplateStop

SpecTemplate == TemplateInit /\ [][TemplateNext]_vars

(***************************************************************************)
(* SpecFair: processCharts under a fair scheduler, every tool invocation   *)
(* and file read completing                                                *)
(***************************************************************************)
\* The charts of the run: one whose dependencies are updated and that has an
\* undefined reference, and one that passes or whose Chart.yaml is unreadable;
\* one values file is given, which every scan merges.
FairInit ==
    /\ TemplateIdle
    /\ MergeIdle
    /\ LoadIdle
    /\ ResolveIdle
    /\ ParseIdle
    /\ ConfigIdle
    /\ CommandIdle
    /\ ProcessChartsCalled
    /\ chartDirs \in SeqsUpTo({ChartC1, ChartC2}, NumCharts)
    /\ configValuesFiles = <<FileO1>>
    /\ \E e2 \in {ChartResolved, ChartUnreadable} :
          /\ ChartC2 \in Range(chartDirs) \/ e2 = ChartResolved
          /\ env = [charts |-> (ChartC1 :> ChartUndefined @@ ChartC2 :> e2),
                 fs |-> (Join(ChartC1, "values.yaml") :> DocFile(KeyA :> Scalar(1))
                         @@ Join(ChartC2, "values.yaml") :> DocFile(KeyA :> Scalar(1))
                         @@ FileO1 :> DocFile(KeyA :> Scalar(2)))]
    /\ disk = NoDisk

\* The Go scheduler runs every goroutine that can run, and a step of the
\* model is a call that returns: a step that stays possible is taken.
SpecFair == FairInit /\ [][PipelineNext]_vars /\ WF_vars(PipelineNext)

\* The goroutines that have not called wg.Done.
NotDone == {i \in DOMAIN gor : gor[i].pc # "exit"}

\* C27: under every fair interleaving processCharts returns, with one result
\* per chart directory; until then the WaitGroup counts the goroutines that
\* have not signalled, each goroutine signalling once after it has released the
\* mutex, and at the return every goroutine has ended and the mutex is free.
C27_ProcessChartsReturns ==
    /\ [](mainpc = "wait" => (wg = Cardinality(NotDone) /\ mutex \notin DOMAIN gor \ NotDone))
    /\ [](mainpc = "returned" =>
            /\ NotDone = {}
            /\ mutex = 0
            /\ Len(returned.results) = Len(chartDirs))
    /\ <>(mainpc = "returned")

\* Two goroutines have locked, recorded, unlocked and signalled, and
\* processCharts has returned the two results.
C27_Witness ==
    /\ mainpc = "returned"
    /\ Len(returned.results) = 2
    /\ \A i \in DOMAIN gor : gor[i].pc = "exit"
    /\ wg = 0
    /\ mutex = 0

(***************************************************************************)
(* Template files that cannot be read                                      *)
(***************************************************************************)
StartsWith(s, prefix) ==
    Len(s) >= Len(prefix) /\ SubSeq(s, 1, Len(prefix)) = prefix

\* How many of the diagnostics start with prefix.
CountStarting(errors, prefix) ==
    Cardinality({k \in DOMAIN errors : StartsWith(errors[k], prefix)})

\* C28: in a scan that walks the templates directory, a file the walk cannot
\* access and a .yaml file that cannot be parsed each give one diagnostic
\* naming the file, and every reference of every other .yaml file of the
\* directory, before or after it, is extracted and is either resolved or
\* reported as undefined.
C28_TraversalContinues ==
    \A i \in DOMAIN gor :
        LET g    == gor[i]
            c    == g.chartDir
            t    == env.charts[c].templates
            path(e) == Join(c, "templates") \o <<"/">> \o e.name
        IN  (g.ret.set /\ g.ran = FullRun /\ t.st = "dir") =>
            \A k \in DOMAIN t.entries :
                LET e == t.entries[k]
                IN  /\ e.st = "walkerr" =>
                          CountStarting(g.ret.errors, <<"Error accessing file ">> \o path(e)) = 1
                    /\ (e.st = "unreadable" /\ HasYamlSuffix(e.name)) =>
                          CountStarting(g.ret.errors,
                              <<"Error parsing template file ">> \o path(e) \o <<": ">>) = 1
                    /\ (e.st = "ok" /\ HasYamlSuffix(e.name)) =>
                          \A r \in Range(TemplateParser(path(e), e).refs) :
                              /\ r \in Range(g.refs)
                              /\ \/ checkNestedValueExists(Split(r.Name, "."), g.vals.h,
                                                           Ref(g.vals.values))
                                 \/ UndefinedValueMessage(r) \in Range(g.ret.undefinedValues)

\* sub/u.yaml cannot be read and t.yaml, visited after it, refers to b, which
\* no values file defines: one diagnostic for each.
C28_Witness ==
    /\ Len(results) = 1
    /\ gor[1].ran = FullRun
    /\ Len(env.charts[ChartC1].templates.entries) = 3
    /\ CountStarting(results[1].Errors,
                     <<"Error parsing template file ", "c1", "/", "templates", "/",
                       "sub", "/", "u", ".yaml", ": ">>) = 1
    /\ Len(gor[1].refs) = 1
    /\ gor[1].refs[1].File = <<"c1", "/", "templates", "/", "t", ".yaml">>
    /\ Len(results[1].UndefinedValues) = 1

\* a.yaml cannot be accessed and d.yaml, visited after it, refers to b, which
\* the values define.
C28_WitnessWalkError ==
    /\ Len(results) = 1
    /\ gor[1].ran = FullRun
    /\ Len(env.charts[ChartC1].templates.entries) = 2
    /\ env.charts[ChartC1].templates.entries[1].st = "walkerr"
    /\ CountStarting(results[1].Errors, <<"Error accessing file ">>) = 1
    /\ Len(gor[1].refs) = 1
    /\ results[1].UndefinedValues = <<>>

(***************************************************************************)
(* What a scan leaves in the chart directory                               *)
(***************************************************************************)
\* C29: once helm dependency update has run for a chart, the charts/
\* directory and the Chart.lock it wrote are gone when ScanHelmChart returns,
\* on the return for a missing values file as on the last return.
C29_DependenciesCleanedUp ==
    \A i \in DOMAIN gor :
        LET g == gor[i]
        IN  (g.ret.set /\ g.chartDir # <<>> /\ DepOf(g.chartDir) = "updated") =>
                /\ g.chartDir \notin disk.charts
                /\ g.chartDir \notin disk.locks

\* C30: the scan of charts that declare no dependencies changes nothing on
\* disk: no step of it creates or removes a charts/ directory, a file below
\* it, a Chart.lock or a temporary file, those that were there before the scan
\* included.
C30_NoDependenciesNoChange ==
    [][(\A c \in DOMAIN env.charts : env.charts[c].dep = "nodeps") => disk' = disk]_vars

====
